---- MODULE Spec2Model ----
(***************************************************************************)
(* Bitzapp: the hybrid intent classifier of chatbot/intent_classifier.py   *)
(* (IntentClassifier), modelled as a state machine.                        *)
(*                                                                         *)
(* Messages are strings.  Python's str operations (lower, strip, split,    *)
(* startswith, replace, find, rfind) and the regular-expression search of  *)
(* the pattern table are modelled character by character, so that the      *)
(* classification of a message is computed the way the code computes it.   *)
(* Amounts (Python floats) are held in thousandths: 5000.0 is 5000000.     *)
(***************************************************************************)
EXTENDS Integers, Sequences, FiniteSets, TLC

(***************************************************************************)
(* Python str helpers                                                      *)
(***************************************************************************)
UpperChars == "ABCDEFGHIJKLMNOPQRSTUVWXYZ"
LowerChars == "abcdefghijklmnopqrstuvwxyz"
DigitChars == "0123456789"

\* the character of s at offset i (0-based, as Python indexes)
At(s, i) == SubSeq(s, i + 1, i + 1)

CharsOf(s) == {At(s, i) : i \in 0..(Len(s) - 1)}

Digits == CharsOf(DigitChars)
Letters == CharsOf(UpperChars) \cup CharsOf(LowerChars)
Whitespace == {" "}

\* str.lower() on one character
LowerChar(c) ==
    IF c \in CharsOf(UpperChars)
    THEN At(LowerChars, CHOOSE i \in 0..25 : At(UpperChars, i) = c)
    ELSE c

RECURSIVE Lower(_)
\* str.lower()
Lower(s) == IF s = "" THEN "" ELSE LowerChar(Head(s)) \o Lower(Tail(s))

RECURSIVE LStrip(_)
LStrip(s) == IF s # "" /\ Head(s) \in Whitespace THEN LStrip(Tail(s)) ELSE s

RECURSIVE RStrip(_)
RStrip(s) ==
    IF s # "" /\ At(s, Len(s) - 1) \in Whitespace
    THEN RStrip(SubSeq(s, 1, Len(s) - 1))
    ELSE s

\* str.strip()
Strip(s) == RStrip(LStrip(s))

\* str.startswith(p)
StartsWith(s, p) == Len(p) <= Len(s) /\ SubSeq(s, 1, Len(p)) = p

RECURSIVE SplitFrom(_, _, _)
\* the whitespace-separated tokens of s from offset i on; cur is the token
\* being read
SplitFrom(s, i, cur) ==
    IF i >= Len(s)
    THEN IF cur = "" THEN <<>> ELSE <<cur>>
    ELSE IF At(s, i) \in Whitespace
         THEN IF cur = "" THEN SplitFrom(s, i + 1, "")
              ELSE <<cur>> \o SplitFrom(s, i + 1, "")
         ELSE SplitFrom(s, i + 1, cur \o At(s, i))

\* str.split() with no argument
Split(s) == SplitFrom(s, 0, "")

RECURSIVE RemoveCommas(_)
\* str.replace(',', '')
RemoveCommas(s) ==
    IF s = "" THEN ""
    ELSE IF Head(s) = "," THEN RemoveCommas(Tail(s))
         ELSE Head(s) \o RemoveCommas(Tail(s))

(***************************************************************************)
(* Regular expressions: the constructs the pattern table uses, with        *)
(* Python's backtracking order (greedy quantifiers, leftmost alternative   *)
(* first).  Match returns every way r matches s at offset i, in the order  *)
(* the backtracking matcher tries them; the first one is the match that    *)
(* re.search reports.                                                      *)
(***************************************************************************)
Lit(s) == [t |-> "lit", s |-> s]
Cls(cs) == [t |-> "cls", cs |-> cs]
Cat(rs) == [t |-> "cat", rs |-> rs]
Alt(rs) == [t |-> "alt", rs |-> rs]
Opt(r) == [t |-> "opt", r |-> r]
Star(r) == [t |-> "star", r |-> r]
Plus(r) == Cat(<<r, Star(r)>>)
Grp(n, r) == [t |-> "grp", n |-> n, r |-> r]
WordB == [t |-> "wordb"]
Bol == [t |-> "bol"]
Eol == [t |-> "eol"]

RECURSIVE AltLits(_)
\* (?:w1|w2|...) for literal alternatives
AltLits(ws) == IF ws = <<>> THEN <<>> ELSE <<Lit(Head(ws))>> \o AltLits(Tail(ws))
Words(ws) == Alt(AltLits(ws))

\* \w, \s, \d
WordChars == Letters \cup Digits \cup {"_"}
IsWordAt(s, i) == i >= 0 /\ i < Len(s) /\ At(s, i) \in WordChars

NoGroups == <<<<>>, <<>>>>

RECURSIVE Match(_, _, _, _), MatchCat(_, _, _), MatchAlt(_, _, _, _),
          MatchStar(_, _, _), MatchThen(_, _, _)
Match(r, s, i, g) ==
    CASE r.t = "lit" ->
           IF i + Len(r.s) <= Len(s) /\ SubSeq(s, i + 1, i + Len(r.s)) = r.s
           THEN <<[p |-> i + Len(r.s), g |-> g]>> ELSE <<>>
      [] r.t = "cls" ->
           IF i < Len(s) /\ At(s, i) \in r.cs
           THEN <<[p |-> i + 1, g |-> g]>> ELSE <<>>
      [] r.t = "wordb" ->
           IF IsWordAt(s, i - 1) # IsWordAt(s, i)
           THEN <<[p |-> i, g |-> g]>> ELSE <<>>
      [] r.t = "bol" -> IF i = 0 THEN <<[p |-> i, g |-> g]>> ELSE <<>>
      [] r.t = "eol" -> IF i = Len(s) THEN <<[p |-> i, g |-> g]>> ELSE <<>>
      [] r.t = "cat" -> MatchCat(r.rs, s, <<[p |-> i, g |-> g]>>)
      [] r.t = "alt" -> MatchAlt(r.rs, s, i, g)
      [] r.t = "opt" -> Match(r.r, s, i, g) \o <<[p |-> i, g |-> g]>>
      [] r.t = "star" ->
           MatchStar(r, s, Match(r.r, s, i, g)) \o <<[p |-> i, g |-> g]>>
      [] r.t = "grp" -> MatchThen(r, s, <<[p |-> i, g |-> g]>>)

\* the members of rs one after the other, from each of the positions in ms
MatchCat(rs, s, ms) ==
    IF rs = <<>> \/ ms = <<>> THEN ms
    ELSE MatchCat(Tail(rs), s, Match(Head(rs), s, Head(ms).p, Head(ms).g))
         \o MatchCat(rs, s, Tail(ms))

MatchAlt(rs, s, i, g) ==
    IF rs = <<>> THEN <<>>
    ELSE Match(Head(rs), s, i, g) \o MatchAlt(Tail(rs), s, i, g)

\* further iterations of the star r after each first iteration in ms
MatchStar(r, s, ms) ==
    IF ms = <<>> THEN <<>>
    ELSE Match(r, s, Head(ms).p, Head(ms).g) \o MatchStar(r, s, Tail(ms))

RECURSIVE SetGroups(_, _, _, _)
SetGroups(r, s, i, ms) ==
    IF ms = <<>> THEN <<>>
    ELSE <<[p |-> Head(ms).p,
            g |-> [Head(ms).g EXCEPT ![r.n] = <<SubSeq(s, i + 1, Head(ms).p)>>]]>>
         \o SetGroups(r, s, i, Tail(ms))

\* a capture group: its body, then the text it spanned is recorded
MatchThen(r, s, ms) == SetGroups(r, s, Head(ms).p, Match(r.r, s, Head(ms).p, Head(ms).g))

NoMatch == <<>>

RECURSIVE SearchFrom(_, _, _)
SearchFrom(r, s, i) ==
    IF i > Len(s) THEN NoMatch
    ELSE IF Match(r, s, i, NoGroups) # <<>>
         THEN <<Head(Match(r, s, i, NoGroups)).g>>
         ELSE SearchFrom(r, s, i + 1)

\* re.search(pattern, s): NoMatch, or <<groups>> of the leftmost match
Search(r, s) == SearchFrom(r, s, 0)

(***************************************************************************)
(* IntentClassifier._extract_amount                                        *)
(***************************************************************************)
\* thousandths per unit: the model's fixed-point rendering of a float
Scale == 1000

DigitVal(c) == CHOOSE d \in 0..9 : At(DigitChars, d) = c

RECURSIVE DigitsVal(_, _)
\* the value of a run of digits, acc being the value read so far
DigitsVal(s, acc) ==
    IF s = "" THEN acc ELSE DigitsVal(Tail(s), 10 * acc + DigitVal(Head(s)))

\* the offset of the first '.' of s, or Len(s)
RECURSIVE DotAt(_, _)
DotAt(s, i) == IF i >= Len(s) \/ At(s, i) = "." THEN i ELSE DotAt(s, i + 1)

IntPart(s) == SubSeq(s, 1, DotAt(s, 0))
FracPart(s) == SubSeq(s, DotAt(s, 0) + 2, Len(s))

\* the strings float() converts, among those over digits, '.', ',' and
\* letters: an optional sign, then digits with at most one '.', and at least
\* one digit.  (Exponents, "inf", "nan" and '_' are outside the messages the
\* model draws.)
Unsigned(s) == IF s # "" /\ Head(s) \in {"+", "-"} THEN Tail(s) ELSE s
FloatOk(s) ==
    /\ CharsOf(IntPart(Unsigned(s))) \subseteq Digits
    /\ CharsOf(FracPart(Unsigned(s))) \subseteq Digits
    /\ Len(IntPart(Unsigned(s))) + Len(FracPart(Unsigned(s))) > 0

\* the first three decimals of a fraction, as thousandths
FracVal(f) == DigitsVal(SubSeq(f \o "000", 1, 3), 0)

\* float(s) for FloatOk(s), in thousandths
Float(s) ==
    (IF s # "" /\ Head(s) = "-" THEN -1 ELSE 1)
    * (DigitsVal(IntPart(Unsigned(s)), 0) * Scale + FracVal(FracPart(Unsigned(s))))

\* a capture group that did not take part in the match is None
None == <<>>

\* an exception that leaves a method instead of a returned record
Raised == [raised |-> TRUE]
IsRaised(r) == "raised" \in DOMAIN r

\* a variant of _extract_amount that leaves the commas in
ExtractAmount_KeepCommas(amount_str) ==
    IF amount_str = None THEN 0
    ELSE IF FloatOk(amount_str[1]) THEN Float(amount_str[1]) ELSE 0

\* _extract_amount: commas removed, then float(); 0.0 on ValueError (not a
\* number) or AttributeError (None)
ExtractAmount(amount_str) ==
    IF amount_str = None THEN 0
    ELSE IF FloatOk(RemoveCommas(amount_str[1]))
         THEN Float(RemoveCommas(amount_str[1]))
         ELSE 0

(***************************************************************************)
(* IntentClassifier.intent_patterns                                        *)
(***************************************************************************)
Ws1 == Plus(Cls(Whitespace))
Ws0 == Star(Cls(Whitespace))
Digit == Cls(Digits)
\* (?:₦|naira|ngn)? and (?:naira|ngn|₦)?
NairaPre == Opt(Words(<<"₦", "naira", "ngn">>))
NairaPost == Opt(Words(<<"naira", "ngn", "₦">>))
\* \d+(?:,\d{3})*(?:\.\d+)?
AmountRe == Cat(<<Plus(Digit), Star(Cat(<<Lit(","), Digit, Digit, Digit>>)),
                  Opt(Cat(<<Lit("."), Plus(Digit)>>))>>)
\* \d+(?:\.\d+)?
PlainAmountRe == Cat(<<Plus(Digit), Opt(Cat(<<Lit("."), Plus(Digit)>>))>>)
\* [a-zA-Z0-9\s]+
ReceiverRe == Plus(Cls(Letters \cup Digits \cup Whitespace))
Coin == Words(<<"wallet", "btc", "bitcoin">>)

create_wallet_patterns == <<
    Cat(<<WordB, Words(<<"create", "open", "make", "new">>), Ws1, Coin, WordB>>),
    Cat(<<WordB, Coin, Ws1, Words(<<"create", "open", "make", "new">>), WordB>>),
    Cat(<<Bol, Lit("/create"), Eol>>),
    Cat(<<WordB, Opt(Cat(<<Lit("i"), Ws1>>)), Words(<<"need", "want">>), Ws1,
          Opt(Cat(<<Lit("a"), Ws1>>)), Coin, WordB>>),
    Cat(<<WordB, Words(<<"get", "start">>), Ws1, Coin, WordB>>) >>

deposit_patterns == <<
    Cat(<<WordB, Words(<<"deposit", "buy", "add", "convert", "save">>), Ws1,
          NairaPre, Ws0, Grp(1, AmountRe), Ws0, NairaPost, WordB>>),
    Cat(<<WordB, Words(<<"₦", "naira", "ngn">>), Ws0, Grp(1, AmountRe), Ws0,
          Opt(Cat(<<Lit("to"), Ws1>>)), Words(<<"bitcoin", "btc">>), WordB>>),
    Cat(<<WordB, Words(<<"bitcoin", "btc">>), Ws1, Words(<<"with", "for">>), Ws1,
          NairaPre, Ws0, Grp(1, AmountRe), Ws0, NairaPost, WordB>>),
    Cat(<<Bol, Lit("/deposit"), Ws1, Grp(1, AmountRe)>>),
    Cat(<<WordB, Opt(Cat(<<Lit("i"), Ws1>>)), Words(<<"want", "need">>), Ws1,
          Opt(Cat(<<Lit("to"), Ws1>>)), Words(<<"deposit", "buy", "add">>), Ws1,
          NairaPre, Ws0, Grp(1, AmountRe), Ws0, NairaPost, WordB>>) >>

send_patterns == <<
    Cat(<<WordB, Words(<<"send", "transfer", "give">>), Ws1, NairaPre, Ws0,
          Grp(1, AmountRe), Ws0, NairaPost, Ws0,
          Opt(Cat(<<Lit("worth"), Ws1, Lit("of"), Ws1>>)),
          Words(<<"btc", "bitcoin">>), Ws1, Words(<<"to", "for">>), Ws1,
          Grp(2, ReceiverRe)>>),
    Cat(<<WordB, Words(<<"send", "transfer", "give">>), Ws1,
          Grp(1, PlainAmountRe), Ws0, Words(<<"btc", "bitcoin">>), Ws1,
          Words(<<"to", "for">>), Ws1, Grp(2, ReceiverRe)>>),
    Cat(<<Bol, Lit("/send"), Ws1, Grp(1, PlainAmountRe), Ws1, Grp(2, ReceiverRe)>>),
    Cat(<<WordB, Words(<<"send", "transfer", "give">>), Ws1,
          Words(<<"to", "for">>), Ws1, Grp(1, ReceiverRe), Ws1, NairaPre, Ws0,
          Grp(2, AmountRe), Ws0, NairaPost, WordB>>) >>

balance_patterns == <<
    Cat(<<WordB, Alt(<<Lit("balance"), Lit("check"), Lit("show"),
                       Cat(<<Lit("what"), Ws1, Lit("is")>>)>>), Ws1,
          Opt(Cat(<<Lit("my"), Ws1>>)),
          Words(<<"balance", "wallet", "btc", "bitcoin">>), WordB>>),
    Cat(<<WordB, Alt(<<Cat(<<Lit("how"), Ws1, Lit("much")>>),
                       Cat(<<Lit("how"), Ws1, Lit("many")>>)>>), Ws1,
          Words(<<"btc", "bitcoin">>), Ws1,
          Opt(Cat(<<Lit("do"), Ws1, Lit("i"), Ws1>>)),
          Words(<<"have", "own">>), WordB>>),
    Cat(<<Bol, Lit("/balance"), Eol>>),
    Cat(<<WordB, Opt(Cat(<<Lit("my"), Ws1>>)),
          Words(<<"balance", "wallet", "btc", "bitcoin">>), Ws1,
          Words(<<"balance", "amount", "value">>), WordB>>) >>

withdraw_patterns == <<
    Cat(<<WordB, Alt(<<Lit("withdraw"), Cat(<<Lit("cash"), Ws1, Lit("out")>>),
                       Cat(<<Lit("convert"), Ws1, Lit("to"), Ws1, Lit("naira")>>)>>),
          Ws1, NairaPre, Ws0, Grp(1, AmountRe), Ws0, NairaPost, Ws0,
          Opt(Cat(<<Lit("to"), Ws1>>)), Opt(Cat(<<Lit("my"), Ws1>>)),
          Words(<<"bank", "account">>), WordB>>),
    Cat(<<WordB, Words(<<"send", "transfer">>), Ws1, NairaPre, Ws0,
          Grp(1, AmountRe), Ws0, NairaPost, Ws0,
          Opt(Cat(<<Lit("to"), Ws1>>)), Opt(Cat(<<Lit("my"), Ws1>>)),
          Words(<<"bank", "account">>), WordB>>),
    Cat(<<Bol, Lit("/withdraw"), Ws1, Grp(1, AmountRe)>>),
    Cat(<<WordB, Opt(Cat(<<Lit("i"), Ws1>>)), Words(<<"want", "need">>), Ws1,
          Opt(Cat(<<Lit("to"), Ws1>>)),
          Alt(<<Lit("withdraw"), Cat(<<Lit("cash"), Ws1, Lit("out")>>)>>), Ws1,
          NairaPre, Ws0, Grp(1, AmountRe), Ws0, NairaPost, WordB>>) >>

transactions_patterns == <<
    Cat(<<WordB, Words(<<"transactions", "history", "activity", "statement",
                         "record">>), WordB>>),
    Cat(<<WordB, Words(<<"show", "see", "view", "get">>), Ws1,
          Opt(Cat(<<Lit("my"), Ws1>>)),
          Words(<<"transactions", "history", "activity">>), WordB>>),
    Cat(<<Bol, Lit("/history"), Eol>>),
    Cat(<<WordB, Opt(Cat(<<Lit("what"), Ws1, Lit("did"), Ws1, Lit("i"), Ws1>>)),
          Words(<<"spend", "send", "receive">>), WordB>>) >>

receive_patterns == <<
    Cat(<<WordB, Alt(<<Lit("receive"), Lit("get"),
                       Cat(<<Lit("my"), Ws1, Lit("address")>>),
                       Cat(<<Lit("bitcoin"), Ws1, Lit("address")>>)>>), WordB>>),
    Cat(<<Bol, Lit("/receive"), Eol>>),
    Cat(<<WordB, Opt(Cat(<<Lit("how"), Ws1, Lit("to"), Ws1>>)),
          Words(<<"receive", "get">>), Ws1, Words(<<"bitcoin", "btc">>), WordB>>),
    Cat(<<WordB, Opt(Cat(<<Lit("my"), Ws1>>)),
          Alt(<<Lit("address"), Cat(<<Lit("wallet"), Ws1, Lit("address")>>)>>),
          WordB>>) >>

\* a variant of the table that declares send before deposit
intent_patterns_SendFirst == <<
    [intent |-> "create_wallet", patterns |-> create_wallet_patterns],
    [intent |-> "send", patterns |-> send_patterns],
    [intent |-> "deposit", patterns |-> deposit_patterns],
    [intent |-> "balance", patterns |-> balance_patterns],
    [intent |-> "withdraw", patterns |-> withdraw_patterns],
    [intent |-> "transactions", patterns |-> transactions_patterns],
    [intent |-> "receive", patterns |-> receive_patterns] >>

\* the table, in the order the dict literal declares its keys
intent_patterns == <<
    [intent |-> "create_wallet", patterns |-> create_wallet_patterns],
    [intent |-> "deposit", patterns |-> deposit_patterns],
    [intent |-> "send", patterns |-> send_patterns],
    [intent |-> "balance", patterns |-> balance_patterns],
    [intent |-> "withdraw", patterns |-> withdraw_patterns],
    [intent |-> "transactions", patterns |-> transactions_patterns],
    [intent |-> "receive", patterns |-> receive_patterns] >>

(***************************************************************************)
(* IntentClassifier._extract_intent_data, _classify_with_regex             *)
(***************************************************************************)
\* len(match.groups()): the number of capture groups of the pattern
RECURSIVE GroupCount(_), GroupCountAll(_)
GroupCount(r) ==
    CASE r.t = "grp" -> 1 + GroupCount(r.r)
      [] r.t \in {"opt", "star"} -> GroupCount(r.r)
      [] r.t \in {"cat", "alt"} -> GroupCountAll(r.rs)
      [] OTHER -> 0
GroupCountAll(rs) ==
    IF rs = <<>> THEN 0 ELSE GroupCount(Head(rs)) + GroupCountAll(Tail(rs))

\* match is [groups |-> the captured texts, n |-> len(match.groups())]
ExtractIntentData(intent, match, msg) ==
    CASE intent = "deposit" ->
           [intent |-> intent, amount |-> ExtractAmount(match.groups[1]),
            currency |-> "NGN"]
      [] intent = "send" ->
           IF match.n >= 2
           THEN [intent |-> intent, amount |-> ExtractAmount(match.groups[1]),
                 receiver |-> Strip(match.groups[2][1]), currency |-> "NGN"]
           ELSE [intent |-> intent]
      [] intent = "withdraw" ->
           [intent |-> intent, amount |-> ExtractAmount(match.groups[1]),
            currency |-> "NGN"]
      [] OTHER -> [intent |-> intent]

RECURSIVE FirstMatch(_, _, _, _)
\* the two nested loops of _classify_with_regex, from intent t, pattern k on
FirstMatch(table, message_lower, t, k) ==
    IF t > Len(table) THEN [intent |-> "chat", message |-> message_lower]
    ELSE IF k > Len(table[t].patterns)
         THEN FirstMatch(table, message_lower, t + 1, 1)
         ELSE IF Search(table[t].patterns[k], message_lower) # NoMatch
              THEN ExtractIntentData(
                       table[t].intent,
                       [groups |-> Search(table[t].patterns[k], message_lower)[1],
                        n |-> GroupCount(table[t].patterns[k])],
                       message_lower)
              ELSE FirstMatch(table, message_lower, t, k + 1)

\* a variant of _classify_with_regex without its own handler: the exception
\* leaves the method
ClassifyWithRegex_Reraise(message_lower, fault) ==
    IF fault THEN Raised
    ELSE FirstMatch(intent_patterns, message_lower, 1, 1)

\* _classify_with_regex; fault: an exception raised inside the loop, which the
\* method's handler turns into chat
ClassifyWithRegex(message_lower, fault) ==
    IF fault THEN [intent |-> "chat", message |-> message_lower]
    ELSE FirstMatch(intent_patterns, message_lower, 1, 1)

(***************************************************************************)
(* IntentClassifier._handle_slash_command                                  *)
(***************************************************************************)
\* a variant of _handle_slash_command that compares the command as typed
HandleSlashCommand_CaseSensitive(msg) ==
    LET parts == Split(msg)
        command == parts[1]
    IN CASE command = "/create" -> [intent |-> "create_wallet"]
         [] command = "/balance" -> [intent |-> "balance"]
         [] command = "/receive" -> [intent |-> "receive"]
         [] command = "/history" -> [intent |-> "transactions"]
         [] StartsWith(command, "/deposit") /\ Len(parts) > 1 ->
              [intent |-> "deposit", amount |-> ExtractAmount(<<parts[2]>>),
               currency |-> "NGN"]
         [] StartsWith(command, "/send") /\ Len(parts) > 2 ->
              [intent |-> "send", amount |-> ExtractAmount(<<parts[2]>>),
               receiver |-> parts[3], currency |-> "BTC"]
         [] StartsWith(command, "/withdraw") /\ Len(parts) > 1 ->
              [intent |-> "withdraw", amount |-> ExtractAmount(<<parts[2]>>),
               currency |-> "NGN"]
         [] OTHER -> [intent |-> "chat", message |-> msg]

HandleSlashCommand(msg) ==
    LET parts == Split(msg)
        command == Lower(parts[1])
    IN CASE command = "/create" -> [intent |-> "create_wallet"]
         [] command = "/balance" -> [intent |-> "balance"]
         [] command = "/receive" -> [intent |-> "receive"]
         [] command = "/history" -> [intent |-> "transactions"]
         [] StartsWith(command, "/deposit") /\ Len(parts) > 1 ->
              [intent |-> "deposit", amount |-> ExtractAmount(<<parts[2]>>),
               currency |-> "NGN"]
         [] StartsWith(command, "/send") /\ Len(parts) > 2 ->
              [intent |-> "send", amount |-> ExtractAmount(<<parts[2]>>),
               receiver |-> parts[3], currency |-> "BTC"]
         [] StartsWith(command, "/withdraw") /\ Len(parts) > 1 ->
              [intent |-> "withdraw", amount |-> ExtractAmount(<<parts[2]>>),
               currency |-> "NGN"]
         [] OTHER -> [intent |-> "chat", message |-> msg]

(***************************************************************************)
(* The remote classifier: _call_gemini_api, _classify_with_gemini          *)
(*                                                                         *)
(* The text the endpoint returns is a sequence of lexical chunks: an       *)
(* opening brace, a closing brace, a run of prose, or one "key": value     *)
(* member of a JSON object.  Over these chunks a slice is a JSON object    *)
(* exactly when it is an opening brace, members, a closing brace.          *)
(***************************************************************************)
LBrace == [k |-> "{"]
RBrace == [k |-> "}"]
Prose == [k |-> "prose"]
Member(key, value) == [k |-> "member", key |-> key, value |-> value]

\* what requests.post does: it raises (timeout, connection error), or there
\* is a response with a status code and, in its body, a list of candidates
\* of which the first one's text is read
Raises == [raises |-> TRUE]
Response(status_code, candidates) ==
    [raises |-> FALSE, status_code |-> status_code, candidates |-> candidates]

\* a variant of _call_gemini_api that reads the body whatever the status
CallGeminiApi_AnyStatus(resp) ==
    IF resp.raises THEN <<>>
    ELSE IF Len(resp.candidates) > 0 THEN resp.candidates[1] ELSE <<>>

\* _call_gemini_api: the stripped text of the first candidate, "" otherwise
\* (the empty text is the empty sequence of chunks)
CallGeminiApi(resp) ==
    IF resp.raises THEN <<>>
    ELSE IF resp.status_code = 200
         THEN IF Len(resp.candidates) > 0 THEN resp.candidates[1] ELSE <<>>
         ELSE <<>>

\* str.find and str.rfind of a brace, as 0-based offsets, -1 if absent
Find(text, c) ==
    IF \E i \in 1..Len(text) : text[i] = c
    THEN (CHOOSE i \in 1..Len(text) :
              text[i] = c /\ \A j \in 1..(i - 1) : text[j] # c) - 1
    ELSE -1
RFind(text, c) ==
    IF \E i \in 1..Len(text) : text[i] = c
    THEN (CHOOSE i \in 1..Len(text) :
              text[i] = c /\ \A j \in (i + 1)..Len(text) : text[j] # c) - 1
    ELSE -1

\* json.loads succeeds on the slice (else JSONDecodeError)
IsJsonObject(json_str) ==
    /\ Len(json_str) >= 2
    /\ json_str[1] = LBrace
    /\ json_str[Len(json_str)] = RBrace
    /\ \A i \in 2..(Len(json_str) - 1) : json_str[i].k = "member"

RECURSIVE LoadMembers(_)
\* the dict of the members, a repeated key keeping its last value
LoadMembers(ms) ==
    IF ms = <<>> THEN [key \in {} |-> ""]
    ELSE (ms[Len(ms)].key :> ms[Len(ms)].value)
         @@ LoadMembers(SubSeq(ms, 1, Len(ms) - 1))

\* json.loads(json_str) for IsJsonObject(json_str)
JsonLoads(json_str) == LoadMembers(SubSeq(json_str, 2, Len(json_str) - 1))

valid_intents == {"create_wallet", "deposit", "send", "balance", "withdraw",
                  "receive", "transactions", "chat"}

\* a variant of _classify_with_gemini that does not validate the intent
ClassifyWithGemini_NoWhitelist(msg, resp) ==
    LET response == CallGeminiApi(resp)
        json_start == Find(response, LBrace)
        json_end == RFind(response, RBrace) + 1
        json_str == SubSeq(response, json_start + 1, json_end)
    IN IF /\ response # <<>>
          /\ json_start # -1 /\ json_end > json_start
          /\ IsJsonObject(json_str)
          /\ "intent" \in DOMAIN JsonLoads(json_str)
       THEN JsonLoads(json_str)
       ELSE [intent |-> "chat", message |-> msg]

\* _classify_with_gemini, from the response of _call_gemini_api on
ClassifyWithGemini(msg, resp) ==
    LET response == CallGeminiApi(resp)
        json_start == Find(response, LBrace)
        json_end == RFind(response, RBrace) + 1
        json_str == SubSeq(response, json_start + 1, json_end)
    IN IF /\ response # <<>>
          /\ json_start # -1 /\ json_end > json_start
          /\ IsJsonObject(json_str)
          /\ "intent" \in DOMAIN JsonLoads(json_str)
          /\ JsonLoads(json_str)["intent"] \in valid_intents
       THEN JsonLoads(json_str)
       ELSE [intent |-> "chat", message |-> msg]

(***************************************************************************)
(* The inputs                                                              *)
(***************************************************************************)
\* the most arguments after a slash command
MaxArgs == 2
\* the most phrases of a natural-language message
MaxPhrases == 2
\* the most chunks of a remote answer
MaxChunks == 4

SlashCommands == {"/create", "/balance", "/receive", "/history", "/deposit",
                  "/send", "/withdraw", "/Deposit", "/CREATE", "/deposits",
                  "/sendall", "/createx", "/help", "/"}
ArgTokens == {"5,000", "5000", "0.001", "abc", "John"}
\* phrases that are combined into longer messages
Phrases == {"hello", "Deposit 5,000 naira", "Send 0.001 BTC to John",
            "withdraw 5000 to my bank"}
\* messages that are sent on their own
Questions == {"What is Bitcoin?", "receive bitcoin", "create wallet"}

RECURSIVE Joined(_, _, _)
\* the texts made of first followed by at most n more members of tokens,
\* single spaces between them
Joined(first, tokens, n) ==
    IF n = 0 THEN first
    ELSE first \cup Joined({f \o " " \o t : f \in first, t \in tokens}, tokens, n - 1)

SlashMessages == Joined(SlashCommands, ArgTokens, MaxArgs)
ChatMessages == Joined(Phrases, Phrases, MaxPhrases - 1)
\* a slash command after a leading blank does not start with '/'
IndentedMessages == {" /create", " /CREATE ", " /deposit 5,000",
                     " /send 0.001 John", " /help"}
Messages == SlashMessages \cup ChatMessages \cup Questions \cup IndentedMessages
\* the messages on which the regex stage is also taken to meet an exception
FaultyMessages == {"hello", "Deposit 5,000 naira", " /create"}
\* a call: its message, and whether the regex stage will meet an exception
Calls == (Messages \X {FALSE}) \cup (FaultyMessages \X {TRUE})

JsonMembers == {Member("intent", "balance"), Member("intent", "chat"),
                Member("intent", "refund"), Member("amount", 5000 * Scale)}
Chunks == {LBrace, RBrace, Prose} \cup JsonMembers

RECURSIVE Texts(_)
\* the chunk sequences of at most n chunks
Texts(n) ==
    IF n = 0 THEN {<<>>}
    ELSE Texts(n - 1) \cup {Append(t, c) : t \in Texts(n - 1), c \in Chunks}

\* an answer that names a known intent
BalanceAnswer == <<LBrace, Member("intent", "balance"), RBrace>>

HttpOutcomes ==
    {Raises, Response(500, <<>>), Response(500, <<BalanceAnswer>>),
     Response(200, <<>>)}
    \cup {Response(200, <<t>>) : t \in Texts(MaxChunks)}

(***************************************************************************)
(* IntentClassifier.classify_intent, one message at a time                 *)
(***************************************************************************)
VARIABLES
    gemini_api_key,   \* settings.GEMINI_API_KEY, "" when not configured
    pc,               \* where classify_intent stands
    message,          \* its argument
    stages,           \* the stages consulted so far, in order
    regex_fault,      \* whether the regex stage meets an exception
    regex_result,     \* what _classify_with_regex returned
    http,             \* what requests.post did, when it was called
    gemini_result,    \* what _classify_with_gemini returned
    result,           \* what classify_intent returned
    requests          \* the number of requests sent to the remote endpoint

\* the database and the message process_command is answering
VARIABLES
    wallets,          \* the BitcoinWallet rows
    naira_deposits,   \* the NairaDeposit rows
    inbound,          \* the user and text process_command was called with
    calls,            \* the remote calls made for this message, in order
    handler_result,   \* what the command handler returned, or that it raised
    reply,            \* what process_command returned
    intent_data       \* the record get_chat_response got from classify_intent

classifier_vars == <<gemini_api_key, pc, message, stages, regex_fault,
                     regex_result, http, gemini_result, result, requests>>

app_vars ==
    <<wallets, naira_deposits, inbound, calls, handler_result, reply, intent_data>>

\* two commands of one user that are served at the same time
VARIABLES
    opening_balance,  \* balance_btc of the user's wallet row before the two
    row_balance,      \* balance_btc of the wallet row in the database
    procs             \* the two requests: command, amount, position, locals

\* the withdrawals
VARIABLES
    naira_withdrawals \* the NairaWithdrawal rows

\* the chat sessions
VARIABLES
    chat_sessions,    \* the ChatSession rows
    chat_messages     \* the ChatMessage rows

\* the Bitnob webhook
VARIABLES
    webhook_secret,   \* settings.BITNOB_WEBHOOK_SECRET, "" when not configured
    webhook_request,  \* the request bitnob_webhook is answering
    webhook_response, \* the status it answered with
    handled_events    \* the events handed to _handle_event, in order

race_vars == <<opening_balance, row_balance, procs>>
session_vars == <<chat_sessions, chat_messages>>
webhook_vars ==
    <<webhook_secret, webhook_request, webhook_response, handled_events>>
\* what the classifier and process_command leave alone
side_vars == <<race_vars, naira_withdrawals, session_vars, webhook_vars>>

vars == <<classifier_vars, app_vars, side_vars>>

\* "no value yet"
Unset == <<>>

Init ==
    /\ gemini_api_key \in {"", "key"}
    /\ pc = "idle"
    /\ message = ""
    /\ stages = <<>>
    /\ regex_fault = FALSE
    /\ regex_result = Unset
    /\ http = Unset
    /\ gemini_result = Unset
    /\ result = Unset
    /\ requests = 0
    /\ wallets = {}
    /\ naira_deposits = <<>>
    /\ inbound = Unset
    /\ calls = <<>>
    /\ handler_result = Unset
    /\ reply = Unset
    /\ intent_data = Unset
    /\ opening_balance = 0
    /\ row_balance = 0
    /\ procs = <<>>
    /\ naira_withdrawals = <<>>
    /\ chat_sessions = <<>>
    /\ chat_messages = <<>>
    /\ webhook_secret = ""
    /\ webhook_request = Unset
    /\ webhook_response = Unset
    /\ handled_events = <<>>

\* classify_intent(m) is called
Call(m, fault) ==
    /\ pc = "idle"
    /\ pc' = "step1"
    /\ message' = m
    /\ stages' = <<>>
    /\ regex_fault' = fault
    /\ regex_result' = Unset
    /\ http' = Unset
    /\ gemini_result' = Unset
    /\ result' = Unset
    /\ requests' = 0
    /\ UNCHANGED gemini_api_key
    /\ UNCHANGED <<app_vars, side_vars>>

\* the except clause of classify_intent
Except ==
    /\ pc' = "done"
    /\ result' = [intent |-> "chat", message |-> message]

\* a variant of step 1 that goes on to the next stage when the slash parser
\* answers chat
Step1_FallThrough ==
    /\ pc = "step1"
    /\ IF StartsWith(message, "/") /\ HandleSlashCommand(message).intent # "chat"
       THEN /\ stages' = Append(stages, "slash")
            /\ pc' = "done"
            /\ result' = HandleSlashCommand(message)
       ELSE /\ pc' = "step2"
            /\ UNCHANGED <<stages, result>>
    /\ UNCHANGED <<gemini_api_key, message, regex_fault, regex_result, http,
                   gemini_result, requests>>
    /\ UNCHANGED <<app_vars, side_vars>>

\* Step 1: a message that starts with '/' is answered by the slash parser
Step1 ==
    /\ pc = "step1"
    /\ IF StartsWith(message, "/")
       THEN /\ stages' = Append(stages, "slash")
            /\ pc' = "done"
            /\ result' = HandleSlashCommand(message)
       ELSE /\ pc' = "step2"
            /\ UNCHANGED <<stages, result>>
    /\ UNCHANGED <<gemini_api_key, message, regex_fault, regex_result, http,
                   gemini_result, requests>>
    /\ UNCHANGED <<app_vars, side_vars>>

\* Step 2: the regex classifier on the lower-cased, stripped message
Step2 ==
    /\ pc = "step2"
    /\ LET r == ClassifyWithRegex(Strip(Lower(message)), regex_fault)
       IN /\ stages' = Append(stages, "regex")
          /\ regex_result' = r
          /\ IF IsRaised(r) THEN Except
             ELSE IF r.intent # "chat"
                  THEN pc' = "done" /\ result' = r
                  ELSE pc' = "step3" /\ UNCHANGED result
    /\ UNCHANGED <<gemini_api_key, message, regex_fault, http, gemini_result,
                   requests>>
    /\ UNCHANGED <<app_vars, side_vars>>

\* a variant of step 3 that does not look at the key
Step3_AnyKey ==
    /\ pc = "step3"
    /\ \E h \in HttpOutcomes :
         LET r == ClassifyWithGemini(message, h)
         IN /\ http' = h
            /\ requests' = requests + 1
            /\ stages' = Append(stages, "remote")
            /\ gemini_result' = r
            /\ IF IsRaised(r) THEN Except
               ELSE IF r.intent # "chat"
                    THEN pc' = "done" /\ result' = r
                    ELSE pc' = "step4" /\ UNCHANGED result
    /\ UNCHANGED <<gemini_api_key, message, regex_fault, regex_result>>
    /\ UNCHANGED <<app_vars, side_vars>>

\* Step 3: the remote classifier, when a key is configured
Step3 ==
    /\ pc = "step3"
    /\ IF gemini_api_key # ""
       THEN \E h \in HttpOutcomes :
              LET r == ClassifyWithGemini(message, h)
              IN /\ http' = h
                 /\ requests' = requests + 1
                 /\ stages' = Append(stages, "remote")
                 /\ gemini_result' = r
                 /\ IF IsRaised(r) THEN Except
                    ELSE IF r.intent # "chat"
                         THEN pc' = "done" /\ result' = r
                         ELSE pc' = "step4" /\ UNCHANGED result
       ELSE /\ pc' = "step4"
            /\ UNCHANGED <<http, requests, stages, gemini_result, result>>
    /\ UNCHANGED <<gemini_api_key, message, regex_fault, regex_result>>
    /\ UNCHANGED <<app_vars, side_vars>>

\* Step 4: the default
Step4 ==
    /\ pc = "step4"
    /\ pc' = "done"
    /\ stages' = Append(stages, "default")
    /\ result' = [intent |-> "chat", message |-> message]
    /\ UNCHANGED <<gemini_api_key, message, regex_fault, regex_result, http,
                   gemini_result, requests>>
    /\ UNCHANGED <<app_vars, side_vars>>

\* the caller has the record; the call's locals are gone and the classifier
\* is ready for the next message
Return ==
    /\ pc = "done"
    /\ pc' = "idle"
    /\ message' = ""
    /\ stages' = <<>>
    /\ regex_fault' = FALSE
    /\ regex_result' = Unset
    /\ http' = Unset
    /\ gemini_result' = Unset
    /\ result' = Unset
    /\ requests' = 0
    /\ UNCHANGED gemini_api_key
    /\ UNCHANGED <<app_vars, side_vars>>

Next ==
    \/ \E c \in Calls : Call(c[1], c[2])
    \/ Step1
    \/ Step2
    \/ Step3
    \/ Step4
    \/ Return

Spec == Init /\ [][Next]_vars

(***************************************************************************)
(* Properties of classify_intent                                           *)
(***************************************************************************)
Range(f) == {f[i] : i \in DOMAIN f}
ChatRecord(m) == [intent |-> "chat", message |-> m]
IsSlash(m) == StartsWith(m, "/")

\* the place of a stage in the resolver's order
StageRank(st) ==
    CASE st = "slash" -> 1 [] st = "regex" -> 2 [] st = "remote" -> 3
      [] st = "default" -> 4

\* no pattern of the table matches the lower-cased, stripped message
FailsEveryPattern(m) ==
    \A t \in 1..Len(intent_patterns) :
        \A k \in 1..Len(intent_patterns[t].patterns) :
            Search(intent_patterns[t].patterns[k], Strip(Lower(m))) = NoMatch

\* C1: the stages are consulted in the order slash, regex, remote, default;
\* the call returns at the first stage that yields a non-chat intent; the
\* remote classifier is invoked, and a request is sent, only for a message
\* that does not start with '/', on which the regex classifier returned chat,
\* with a key configured; with no key, a message that fails every pattern
\* resolves to chat with the original message and no request is sent.
C1_StageOrder ==
    /\ \A i, j \in 1..Len(stages) :
           i < j => StageRank(stages[i]) < StageRank(stages[j])
    /\ "slash" \in Range(stages) => stages = <<"slash">>
    /\ ("remote" \in Range(stages) \/ requests > 0) =>
           /\ ~IsSlash(message)
           /\ "regex" \in Range(stages)
           /\ regex_result.intent = "chat"
           /\ gemini_api_key # ""
    /\ "default" \in Range(stages) =>
           /\ "regex" \in Range(stages) /\ regex_result.intent = "chat"
           /\ "remote" \in Range(stages) => gemini_result.intent = "chat"
    /\ (pc = "done" /\ "regex" \in Range(stages)
        /\ regex_result.intent # "chat") =>
           result = regex_result /\ stages = <<"regex">>
    /\ (pc = "done" /\ "remote" \in Range(stages)
        /\ gemini_result.intent # "chat") =>
           result = gemini_result /\ stages = <<"regex", "remote">>
    /\ (pc = "done" /\ gemini_api_key = "" /\ ~IsSlash(message)
        /\ FailsEveryPattern(message)) =>
           /\ result = ChatRecord(message)
           /\ requests = 0
           /\ stages = <<"regex", "default">>

\* a message that fails every pattern has been resolved with no key
C1_Witness ==
    /\ pc = "done"
    /\ gemini_api_key = ""
    /\ message = "hello"
    /\ ~regex_fault
    /\ stages = <<"regex", "default">>
    /\ result = ChatRecord("hello")
    /\ requests = 0

\* C2: classify_intent always returns a record; an exception in the regex
\* stage or in the remote stage leaves that stage's result chat, the stages
\* after it are still consulted, and the call returns a record, at worst chat
\* with the original message.
C2_NeverRaises ==
    /\ pc = "done" => "intent" \in DOMAIN result
    /\ (regex_fault /\ "regex" \in Range(stages)) =>
           /\ regex_result = ChatRecord(Strip(Lower(message)))
           /\ pc = "done" =>
                  /\ "default" \in Range(stages) \/ result.intent # "chat"
                  /\ gemini_api_key # "" => "remote" \in Range(stages)
    /\ (http # Unset /\ http.raises) =>
           /\ gemini_result = ChatRecord(message)
           /\ pc = "done" =>
                  /\ result = ChatRecord(message)
                  /\ stages = <<"regex", "remote", "default">>

\* the regex stage met an exception, then the request to the remote
\* classifier did, and the call has returned
C2_Witness ==
    /\ pc = "done"
    /\ regex_fault
    /\ http # Unset /\ http.raises
    /\ result = ChatRecord(message)

\* the remote answer is a failure: no response, a status other than 200, no
\* candidates, a text with no JSON object from its first '{' to its last '}',
\* or an object whose intent is not one of the eight
NoParseableObject(text) ==
    ~ \E i, j \in 1..Len(text) :
          /\ i < j
          /\ text[i] = LBrace /\ \A h \in 1..(i - 1) : text[h] # LBrace
          /\ text[j] = RBrace /\ \A h \in (j + 1)..Len(text) : text[h] # RBrace
          /\ \A h \in (i + 1)..(j - 1) : text[h].k = "member"
\* the intent the object from the first '{' to the last '}' names (a repeated
\* key keeps its last value), "" if it names none
IntentOf(text) ==
    LET first == CHOOSE i \in 1..Len(text) :
                     text[i] = LBrace /\ \A h \in 1..(i - 1) : text[h] # LBrace
        last == CHOOSE j \in 1..Len(text) :
                    text[j] = RBrace /\ \A h \in (j + 1)..Len(text) : text[h] # RBrace
        is == {h \in (first + 1)..(last - 1) : text[h].key = "intent"}
    IN IF is = {} THEN "" ELSE text[CHOOSE h \in is : \A g \in is : g <= h].value
EightIntents == {"create_wallet", "deposit", "send", "balance", "withdraw",
                 "transactions", "receive", "chat"}
RemoteFailure(h) ==
    \/ h.raises
    \/ h.status_code # 200
    \/ h.candidates = <<>>
    \/ NoParseableObject(h.candidates[1])
    \/ IntentOf(h.candidates[1]) \notin EightIntents

\* C3: when the remote classifier is called and the request fails, is
\* answered with a status other than 200, with no candidates, with a text
\* that holds no parseable JSON object, or with an intent outside the eight,
\* _classify_with_gemini returns chat with the message, and so does
\* classify_intent.
C3_RemoteFailureIsChat ==
    (http # Unset /\ RemoteFailure(http)) =>
        /\ gemini_result = ChatRecord(message)
        /\ pc = "done" => result = ChatRecord(message)

\* the remote classifier named an intent outside the eight and the call has
\* returned chat
C3_Witness ==
    /\ pc = "done"
    /\ http # Unset /\ ~http.raises /\ http.status_code = 200
    /\ http.candidates = <<<<Prose, LBrace, Member("intent", "refund"), RBrace>>>>
    /\ result = ChatRecord(message)

\* C4: for a message that starts with '/', classify_intent returns the slash
\* parser's record, also when it is chat, and neither the regex classifier
\* nor the remote classifier is run.
C4_SlashOnly ==
    (pc = "done" /\ IsSlash(message)) =>
        /\ result = HandleSlashCommand(message)
        /\ stages = <<"slash">>
        /\ regex_result = Unset
        /\ gemini_result = Unset
        /\ http = Unset
        /\ requests = 0

\* a slash message that the slash parser answers with chat has returned
C4_Witness ==
    /\ pc = "done"
    /\ message = "/help 5,000"
    /\ gemini_api_key # ""
    /\ result = ChatRecord("/help 5,000")
    /\ stages = <<"slash">>

\* C5: the record classify_intent returns has an intent, one of the eight.
C5_IntentInEight ==
    pc = "done" => ("intent" \in DOMAIN result /\ result.intent \in EightIntents)

\* the returned record is the remote classifier's
C5_Witness ==
    /\ pc = "done"
    /\ stages = <<"regex", "remote">>
    /\ result = gemini_result
    /\ result.intent = "balance"

\* the fields of a record fit its intent
FieldsFit(r) ==
    /\ "amount" \in DOMAIN r => r.intent \in {"deposit", "send", "withdraw"}
    /\ "currency" \in DOMAIN r => "amount" \in DOMAIN r
    /\ "receiver" \in DOMAIN r => r.intent = "send"

\* C6: a returned record carries amount only for deposit, send and withdraw,
\* currency only with amount, receiver only for send.
C6_FieldsFitIntent == pc = "done" => FieldsFit(result)

\* the regex classifier has just run, without an exception
AfterRegex == stages = <<"regex">> /\ ~regex_fault

DeclaredOrder == <<"create_wallet", "deposit", "send", "balance", "withdraw",
                   "transactions", "receive">>
\* the patterns of an intent, by its name
PatternsOf(intent) ==
    intent_patterns[CHOOSE t \in 1..Len(intent_patterns) :
                        intent_patterns[t].intent = intent].patterns
\* the places, in its intent's list, of the patterns of intent that match m
MatchingPatterns(intent, m) ==
    {k \in 1..Len(PatternsOf(intent)) : Search(PatternsOf(intent)[k], m) # NoMatch}
\* the places, in the declared order, of the intents with a matching pattern
MatchingIntents(m) ==
    {t \in 1..Len(DeclaredOrder) : MatchingPatterns(DeclaredOrder[t], m) # {}}
Least(S) == CHOOSE x \in S : \A y \in S : x <= y

\* C7: the regex classifier returns the intent of the first pattern that
\* matches, intents taken in the declared order and each intent's patterns
\* in list order, and chat if none matches; so deposit wins over send, and
\* send over withdraw, when no intent declared earlier matches.
C7_FirstMatchWins ==
    AfterRegex =>
        LET m == Strip(Lower(message))
            ts == MatchingIntents(m)
        IN /\ ts = {} => regex_result = ChatRecord(m)
           /\ ts # {} =>
                LET intent == DeclaredOrder[Least(ts)]
                    pattern == PatternsOf(intent)[Least(MatchingPatterns(intent, m))]
                IN /\ regex_result.intent = intent
                   /\ regex_result =
                        ExtractIntentData(intent,
                                          [groups |-> Search(pattern, m)[1],
                                           n |-> GroupCount(pattern)], m)
           /\ ({2, 3} \subseteq ts /\ 1 \notin ts) => regex_result.intent = "deposit"
           /\ ({3, 5} \subseteq ts /\ ts \cap {1, 2} = {}) => regex_result.intent = "send"

\* a message with a send phrase followed by a deposit phrase has been
\* classified as deposit
C7_Witness ==
    /\ AfterRegex
    /\ message = "Send 0.001 BTC to John Deposit 5,000 naira"
    /\ regex_result.intent = "deposit"
    /\ regex_result.amount = 5000 * Scale

\* the tokens and the case-folded command of a slash message
TokensOf(m) == Split(m)
CommandOf(m) == Lower(TokensOf(m)[1])
SevenCommands == {"/create", "/balance", "/receive", "/history", "/deposit",
                  "/send", "/withdraw"}

\* C8: a slash message whose command is one of the seven gets the record of
\* the table: /create, /balance, /receive, /history the bare intent;
\* /deposit and /withdraw with an argument the parsed amount and NGN; /send
\* with two arguments the parsed amount, the second argument as receiver and
\* BTC; /deposit, /withdraw, /send with too few tokens chat with the message.
C8_SlashTable ==
    (pc = "done" /\ IsSlash(message) /\ CommandOf(message) \in SevenCommands) =>
        LET c == CommandOf(message)
            ts == TokensOf(message)
        IN result =
             CASE c = "/create" -> [intent |-> "create_wallet"]
               [] c = "/balance" -> [intent |-> "balance"]
               [] c = "/receive" -> [intent |-> "receive"]
               [] c = "/history" -> [intent |-> "transactions"]
               [] c = "/deposit" /\ Len(ts) >= 2 ->
                    [intent |-> "deposit", amount |-> ExtractAmount(<<ts[2]>>),
                     currency |-> "NGN"]
               [] c = "/withdraw" /\ Len(ts) >= 2 ->
                    [intent |-> "withdraw", amount |-> ExtractAmount(<<ts[2]>>),
                     currency |-> "NGN"]
               [] c = "/send" /\ Len(ts) >= 3 ->
                    [intent |-> "send", amount |-> ExtractAmount(<<ts[2]>>),
                     receiver |-> ts[3], currency |-> "BTC"]
               [] OTHER -> ChatRecord(message)

\* a command typed in capitals with arguments has been answered
C8_Witness ==
    /\ pc = "done"
    /\ message = "/CREATE 5000 John"
    /\ result = [intent |-> "create_wallet"]

\* C9: a slash message whose case-folded first token is not exactly one of
\* the seven commands gets chat with the original message.
C9_UnknownCommandIsChat ==
    (pc = "done" /\ IsSlash(message) /\ CommandOf(message) \notin SevenCommands) =>
        result = ChatRecord(message)

\* a token with a letter in it is not a number
HasLetter(token) == CharsOf(token) \cap Letters # {}

\* C10: the amount of a slash command is the number its token reads as once
\* the commas are taken out, so "5,000" and "5000" both give 5000; a token
\* that is not a number gives 0.0 and the command keeps its intent.
C10_AmountParsing ==
    (pc = "done" /\ IsSlash(message) /\ "amount" \in DOMAIN result) =>
        LET token == TokensOf(message)[2]
        IN /\ result.amount = ExtractAmount(<<RemoveCommas(token)>>)
           /\ token \in {"5,000", "5000"} => result.amount = 5000 * Scale
           /\ token = "0.001" => result.amount = 1
           /\ HasLetter(token) =>
                /\ result.amount = 0
                /\ result.intent \in {"deposit", "send", "withdraw"}

\* /deposit with a thousands separator has been parsed
C10_Witness ==
    /\ pc = "done"
    /\ message = "/deposit 5,000"
    /\ result = [intent |-> "deposit", amount |-> 5000 * Scale, currency |-> "NGN"]

(***************************************************************************)
(* The database rows and BitcoinWalletService                              *)
(***************************************************************************)
\* BitzappUser rows, by phone number
Users == {"+2348011111111"}

\* satoshis per BTC: a Decimal with 8 places is written as its satoshis
SatsPerBtc == 100000000

\* the placeholder rate, naira per BTC, used when no rate is stored and none
\* can be fetched
FallbackRate == 50000000

\* a BTC amount read from a token by Decimal(), in satoshis
SatsOfBtc(thousandths) == thousandths * (SatsPerBtc \div Scale)

\* amount_ngn / exchange_rate, in satoshis (the amounts drawn are whole
\* numbers of naira, which divide exactly)
BtcOfNgn(thousandths) == (thousandths * (SatsPerBtc \div FallbackRate)) \div Scale

\* amount_sats / 100000000
BtcOfSats(amount_sats) == amount_sats

\* hashlib.sha256(s).hexdigest(), as a one-to-one function of s
Sha256(s) == "sha256(" \o s \o ")"

\* what a service method did: returned a value or raised, and the wallet rows
\* it left (a raise inside transaction.atomic() leaves them as they were)
Ok(v, W) ==
    [raised |-> FALSE, type |-> "", text |-> "", value |-> v, wallets |-> W]
Exc(t, x, W) ==
    [raised |-> TRUE, type |-> t, text |-> x, value |-> <<>>, wallets |-> W]

\* BitcoinWallet.objects.get(user=user)
HasWallet(W, user) == \E w \in W : w.user = user
GetWallet(W, user) == CHOOSE w \in W : w.user = user

\* BitcoinWallet.objects.create(...): user is one-to-one and bitcoin_address
\* is unique, so the row is refused (IntegrityError) when either is taken
CanCreate(W, row) ==
    \A w \in W : w.user # row.user /\ w.bitcoin_address # row.bitcoin_address

\* wallet.save()
Save(W, row) == {w \in W : w.user # row.user} \cup {row}

BitcoinWallet(user, wallet_type, bitcoin_address, private_key, seed_phrase_hash) ==
    [user |-> user, wallet_type |-> wallet_type,
     bitcoin_address |-> bitcoin_address, private_key |-> private_key,
     seed_phrase_hash |-> seed_phrase_hash, balance_btc |-> 0]

GenerateAddressFromSeed(seed_phrase) == "bc1" \o Sha256(seed_phrase)
GenerateBitcoinAddress(private_key) == "bc1" \o Sha256(private_key)
EncryptPrivateKey(private_key) == Sha256(private_key)

\* _create_custodial_wallet, private_key being what secrets.token_hex gave
CreateCustodialWallet(W, user, private_key) ==
    LET row == BitcoinWallet(user, "custodial",
                             GenerateBitcoinAddress(private_key),
                             EncryptPrivateKey(private_key), "")
    IN IF CanCreate(W, row) THEN Ok(row, W \cup {row})
       ELSE Exc("IntegrityError", "UNIQUE constraint failed", W)

\* a variant of _create_non_custodial_wallet that does not look for a wallet
\* the user has already
CreateNonCustodialWallet_NoLookup(W, user, seed_phrase) ==
    LET row == BitcoinWallet(user, "non_custodial",
                             GenerateAddressFromSeed(seed_phrase), "",
                             Sha256(seed_phrase))
    IN Ok([seed_phrase |-> seed_phrase,
           bitcoin_address |-> row.bitcoin_address],
          {w \in W : w.bitcoin_address # row.bitcoin_address} \cup {row})

\* _create_non_custodial_wallet, seed_phrase being what Mnemonic.generate gave
CreateNonCustodialWallet(W, user, seed_phrase) ==
    IF HasWallet(W, user)
    THEN IF GetWallet(W, user).wallet_type = "non_custodial"
         THEN Ok([seed_phrase |-> "EXISTING_WALLET",
                  bitcoin_address |-> GetWallet(W, user).bitcoin_address], W)
         ELSE Exc("ValueError",
                  "User already has a custodial wallet. Cannot create non-custodial wallet.",
                  W)
    ELSE LET row == BitcoinWallet(user, "non_custodial",
                                  GenerateAddressFromSeed(seed_phrase), "",
                                  Sha256(seed_phrase))
         IN IF CanCreate(W, row)
            THEN Ok([seed_phrase |-> seed_phrase,
                     bitcoin_address |-> row.bitcoin_address], W \cup {row})
            ELSE Exc("IntegrityError", "UNIQUE constraint failed", W)

\* get_wallet_balance: a user without a wallet is given a custodial one
GetWalletBalance(W, user, private_key) ==
    IF HasWallet(W, user)
    THEN Ok([balance_btc |-> GetWallet(W, user).balance_btc,
             bitcoin_address |-> GetWallet(W, user).bitcoin_address], W)
    ELSE LET c == CreateCustodialWallet(W, user, private_key)
         IN IF c.raised THEN c
            ELSE Ok([balance_btc |-> c.value.balance_btc,
                     bitcoin_address |-> c.value.bitcoin_address], c.wallets)

\* import_wallet_from_seed, valid being what Mnemonic.check answered
ImportWalletFromSeed(W, user, seed_phrase, valid) ==
    LET row == [BitcoinWallet(user, "non_custodial",
                              GenerateAddressFromSeed(seed_phrase), "",
                              Sha256(seed_phrase)) EXCEPT !.balance_btc = 0]
        taken == \E w \in W : w.user # user
                              /\ w.bitcoin_address = row.bitcoin_address
    IN IF ~valid THEN Exc("ValueError", "Invalid seed phrase", W)
       ELSE IF HasWallet(W, user)
                /\ GetWallet(W, user).wallet_type # "non_custodial"
            THEN Exc("ValueError", "User already has a custodial wallet", W)
       ELSE IF taken THEN Exc("IntegrityError", "UNIQUE constraint failed", W)
       ELSE Ok([bitcoin_address |-> row.bitcoin_address, balance |-> 0],
               Save(W, row))

\* a variant of send_bitcoin without the balance check
SendBitcoin_NoCheck(W, from_user, to_address, amount_btc, seed_phrase) ==
    IF ~HasWallet(W, from_user)
    THEN Exc("DoesNotExist", "BitcoinWallet matching query does not exist.", W)
    ELSE LET sender_wallet == GetWallet(W, from_user)
         IN Ok("transaction",
               Save(W, [sender_wallet EXCEPT
                            !.balance_btc = @ - amount_btc]))

\* send_bitcoin; seed_phrase is "" when none was given
SendBitcoin(W, from_user, to_address, amount_btc, seed_phrase) ==
    IF ~HasWallet(W, from_user)
    THEN Exc("DoesNotExist", "BitcoinWallet matching query does not exist.", W)
    ELSE LET sender_wallet == GetWallet(W, from_user)
         IN IF sender_wallet.balance_btc < amount_btc
            THEN Exc("ValueError", "Insufficient Bitcoin balance", W)
            ELSE IF sender_wallet.wallet_type = "non_custodial"
                    /\ seed_phrase = ""
            THEN Exc("ValueError",
                     "Seed phrase required for non-custodial wallet", W)
            ELSE IF sender_wallet.wallet_type
                        \notin {"custodial", "non_custodial"}
            THEN Exc("ValueError", "Unknown wallet type", W)
            ELSE Ok("transaction",
                    Save(W, [sender_wallet EXCEPT
                                 !.balance_btc = @ - amount_btc]))

\* receive_bitcoin: get_or_create of the wallet, then the credit
ReceiveBitcoin(W, user, amount_btc, private_key) ==
    LET g == IF HasWallet(W, user) THEN Ok(GetWallet(W, user), W)
             ELSE CreateCustodialWallet(W, user, private_key)
    IN IF g.raised THEN Exc(g.type, g.text, W)
       ELSE Ok("transaction",
               Save(g.wallets, [g.value EXCEPT
                                    !.balance_btc = @ + amount_btc]))

(***************************************************************************)
(* PaymentService                                                          *)
(***************************************************************************)
\* what the remote provider did with a request: nothing was sent because no
\* API key is configured (the demo mode), it answered 200, it answered
\* another status, or requests raised
ProviderOutcomes == {"demo", "accepted", "rejected", "raises"}

\* the remote calls a service method made, given what the provider did
ProviderCalls(api, outcome) ==
    IF outcome = "demo" THEN <<>>
    ELSE <<[api |-> api, ok |-> outcome = "accepted"]>>

\* create_naira_deposit: the row NairaDeposit.objects.create stores
CreateNairaDeposit(D, user, amount_ngn) ==
    Append(D, [user |-> user, amount_ngn |-> amount_ngn,
               amount_btc |-> BtcOfNgn(amount_ngn), status |-> "pending"])

\* process_naira_deposit of row i: the credit, or status failed when the
\* user has no wallet; value is what it returned
ProcessNairaDeposit(W, D, i) ==
    IF HasWallet(W, D[i].user)
    THEN [value |-> TRUE,
          wallets |-> Save(W, [GetWallet(W, D[i].user) EXCEPT
                                   !.balance_btc = @ + D[i].amount_btc]),
          naira_deposits |-> [D EXCEPT ![i].status = "completed"]]
    ELSE [value |-> FALSE, wallets |-> W,
          naira_deposits |-> [D EXCEPT ![i].status = "failed"]]

\* _process_bill_payment: True in demo mode and on status 200, False otherwise
ProcessBillPayment(outcome) == outcome \in {"demo", "accepted"}

\* pay_bill: the balance check, the provider, and the debit on success; a
\* payment the provider did not accept is returned with status pending
PayBill(W, user, amount_ngn, outcome) ==
    IF ~HasWallet(W, user)
    THEN Exc("DoesNotExist", "BitcoinWallet matching query does not exist.", W)
    ELSE IF GetWallet(W, user).balance_btc < BtcOfNgn(amount_ngn)
    THEN Exc("ValueError", "Insufficient Bitcoin balance", W)
    ELSE IF ProcessBillPayment(outcome)
    THEN Ok([status |-> "completed"],
            Save(W, [GetWallet(W, user) EXCEPT
                         !.balance_btc = @ - BtcOfNgn(amount_ngn)]))
    ELSE Ok([status |-> "pending"], W)

\* create_naira_withdrawal: the balance check and the pending row
CreateNairaWithdrawal(W, user, amount_btc) ==
    IF ~HasWallet(W, user)
    THEN Exc("DoesNotExist", "BitcoinWallet matching query does not exist.", W)
    ELSE IF GetWallet(W, user).balance_btc < amount_btc
    THEN Exc("ValueError", "Insufficient Bitcoin balance", W)
    ELSE Ok([user |-> user, amount_btc |-> amount_btc, status |-> "pending"], W)

\* process_naira_withdrawal: the provider, and the debit on success; value is
\* what it returned
ProcessNairaWithdrawal(W, withdrawal, outcome) ==
    IF outcome \in {"demo", "accepted"} /\ HasWallet(W, withdrawal.user)
    THEN Ok(TRUE, Save(W, [GetWallet(W, withdrawal.user) EXCEPT
                               !.balance_btc = @ - withdrawal.amount_btc]))
    ELSE Ok(FALSE, W)

\* _parse_payment_request_amount: the digits after 'lnbc', 1000 without them
PaymentRequestRe == Cat(<<Lit("lnbc"), Grp(1, Plus(Digit))>>)
DefaultSats == 1000
ParsePaymentRequestAmount(payment_request) ==
    IF Search(PaymentRequestRe, payment_request) = NoMatch THEN DefaultSats
    ELSE DigitsVal(Search(PaymentRequestRe, payment_request)[1][1][1], 0)

\* pay_lightning_invoice: the balance check, the provider, and the debit
PayLightningInvoice(W, user, payment_request, outcome) ==
    LET amount_btc == BtcOfSats(ParsePaymentRequestAmount(payment_request))
    IN IF ~HasWallet(W, user)
       THEN Exc("DoesNotExist",
                "BitcoinWallet matching query does not exist.", W)
       ELSE IF GetWallet(W, user).balance_btc < amount_btc
       THEN Exc("ValueError", "Insufficient Bitcoin balance", W)
       ELSE IF outcome = "rejected"
       THEN Exc("ValueError",
                "Failed to process Lightning payment with Bitnob", W)
       ELSE IF outcome = "raises"
       THEN Exc("ConnectionError", "connection failed", W)
       ELSE Ok([amount_btc |-> amount_btc, status |-> "completed"],
               Save(W, [GetWallet(W, user) EXCEPT
                            !.balance_btc = @ - amount_btc]))

\* create_lightning_invoice
CreateLightningInvoice(W, user, amount_sats, outcome) ==
    IF outcome = "rejected"
    THEN Exc("ValueError", "Failed to create Lightning invoice with Bitnob", W)
    ELSE IF outcome = "raises"
    THEN Exc("ConnectionError", "connection failed", W)
    ELSE Ok([amount_sats |-> amount_sats, status |-> "pending"], W)

(***************************************************************************)
(* AIChatbotService and BitnobService                                      *)
(***************************************************************************)
\* sub in s
Contains(s, sub) ==
    \E i \in 0..(Len(s) - Len(sub)) : SubSeq(s, i + 1, i + Len(sub)) = sub

\* dict.get(key, default)
Get(d, key, default) == IF key \in DOMAIN d THEN d[key] ELSE default

\* the steps of classify_intent after the slash test, from what the pattern
\* matching (r) and the remote classifier (g) gave
ResolveIntent(m, api_key, r, g, called) ==
    IF IsRaised(r) THEN [result |-> ChatRecord(m), calls |-> <<>>]
    ELSE IF r.intent # "chat" THEN [result |-> r, calls |-> <<>>]
    ELSE IF api_key = "" THEN [result |-> ChatRecord(m), calls |-> <<>>]
    ELSE IF IsRaised(g) THEN [result |-> ChatRecord(m), calls |-> called]
    ELSE IF g.intent # "chat" THEN [result |-> g, calls |-> called]
    ELSE [result |-> ChatRecord(m), calls |-> called]

\* classify_intent as a function of its message and of what its surroundings
\* did: the record it returns and the requests it sent to the remote endpoint
ClassifyIntent(m, api_key, fault, h) ==
    IF StartsWith(m, "/")
    THEN [result |-> HandleSlashCommand(m), calls |-> <<>>]
    ELSE ResolveIntent(m, api_key, ClassifyWithRegex(Strip(Lower(m)), fault),
                       ClassifyWithGemini(m, h),
                       <<[api |-> "gemini",
                          ok |-> ~h.raises /\ h.status_code = 200]>>)

(***************************************************************************)
(* The messages and surroundings process_command is run with               *)
(***************************************************************************)
\* the most the model lets a wallet hold, in receipts of CreditSats
MaxCredit == 1
\* the most NairaDeposit rows
MaxDeposits == 1

\* the amount the model credits at a time: 0.001 BTC
CreditSats == SatsOfBtc(1)

\* what Mnemonic.generate can give: twelve words, each cut to its first letter
Seed1 == "a b c d e f g h i j k l"
Seed2 == "z y x w v u t s r q p o"
SeedPhrases == {Seed1, Seed2}
\* what secrets.token_hex can give
PrivateKeys == {"0a1b", "2c3d"}

\* the texts process_command is called with
CommandTexts ==
    {"/create", "/import", "/import " \o Seed2, "/wallet", "/deposit",
     "/deposit 0", "/save 50000", "/balance", "/send", "/send 0.001 bc1q",
     "/send 0 bc1q", "/send abc bc1q", "/SEND 0.002 bc1q " \o Seed1,
     "/send 0.001 bc1q " \o Seed1,
     "/receive", "/paybill", "/paybill mtn 50000", "/paybill dstv 50000",
     "/paybill mtn 0", "/withdraw",
     "/withdraw 0.001 1234567890 access john", "/lightning 1000",
     "/lightning abc", "/lightningpay lnbc100000u1p", "/lightningpay xyz",
     "/lightningpay", "/lightning", "/lightningstatus", "/lightningstatus 7",
     "/lightninghistory", "/ask",
     "/ask What is Bitcoin?", "/help", " /Help ", "/frobnicate"}
ChatTexts ==
    {"What is Bitcoin?", "Send 0.001 BTC to John", "hello", "Deposit 0 naira",
     "Deposit 5,000 naira", "tell me a joke",
     "Send ₦2000 worth of BTC to Mary", "receive bitcoin",
     "how to receive bitcoin", "create wallet"}
AppMessages == CommandTexts \cup ChatTexts
\* the texts for which the pattern matching is also made to raise
FaultyTexts == {"hello"}

\* what the remote classifier can answer to process_command's messages
DepositAnswer == <<LBrace, Member("intent", "deposit"), RBrace>>
SendAnswer ==
    <<LBrace, Member("intent", "send"), Member("amount", 2 * Scale), RBrace>>
AppHttpOutcomes ==
    {Raises, Response(500, <<>>), Response(200, <<DepositAnswer>>),
     Response(200, <<SendAnswer>>), Response(200, <<BalanceAnswer>>),
     Response(200, <<<<Prose>>>>)}

\* message.strip().lower()
Normalise(text) == Strip(Lower(text))
\* the same, tabulated once for the texts drawn here (@@ makes the table)
Normalised == [text \in AppMessages |-> Normalise(text)] @@ <<>>

\* the questions handle_ask_command hands on
AskedQuestions == {Strip(SubSeq(Normalised[text], 5, Len(Normalised[text]))) :
                  text \in {t \in AppMessages : StartsWith(Normalised[t], "/ask")}}
\* the texts get_chat_response can be handed
ChatInputs == {Normalised[text] : text \in AppMessages} \cup AskedQuestions
\* classify_intent, tabulated once for the texts and surroundings drawn here
Classified ==
    [m \in ChatInputs, api_key \in {"", "key"}, fault \in BOOLEAN,
     h \in AppHttpOutcomes |-> ClassifyIntent(m, api_key, fault, h)] @@ <<>>

\* what the Bitnob API did with a request of BitnobService: the status the
\* method expects, another status, or requests raised
BitnobOutcomes == {"accepted", "rejected", "raises"}

\* a variant of a BitnobService method that sends a failed request again
BitnobRequest_Retry(api, outcome) ==
    IF outcome = "accepted"
    THEN [success |-> TRUE, calls |-> <<[api |-> api, ok |-> TRUE]>>]
    ELSE [success |-> FALSE,
          calls |-> <<[api |-> api, ok |-> FALSE], [api |-> api, ok |-> FALSE]>>]

\* a BitnobService method: one request, answered with the "success" of the
\* dict it returns (False also when requests raised)
BitnobRequest(api, outcome) ==
    [success |-> outcome = "accepted",
     calls |-> <<[api |-> api, ok |-> outcome = "accepted"]>>]

\* a reply and the remote calls made to produce it
Answer(text, made) == [ret |-> text, calls |-> made]

\* _handle_financial_intent (the amounts the model draws are numbers)
HandleFinancialIntent(user, data, outcome) ==
    LET intent == data["intent"]
        amount == Get(data, "amount", 0)
        receiver == Get(data, "receiver", "")
    IN IF intent = "create_wallet"
       THEN LET b == BitnobRequest("create_wallet", outcome)
            IN Answer(IF b.success THEN "Wallet Created Successfully"
                      ELSE "Sorry, I couldn't create your wallet. ", b.calls)
       ELSE IF intent = "balance"
       THEN LET b == BitnobRequest("get_wallet_balance", outcome)
            IN Answer(IF b.success THEN "Your Bitcoin Wallet Balance"
                      ELSE "Sorry, I couldn't get your balance. ", b.calls)
       ELSE IF intent = "deposit"
       THEN IF amount > 0
            THEN LET b == BitnobRequest("deposit_naira", outcome)
                 IN Answer(IF b.success THEN "Deposit Request Created"
                           ELSE "Sorry, I couldn't process your deposit. ",
                           b.calls)
            ELSE Answer("Please specify an amount to deposit. Example: 'Deposit ₦5000' or '/deposit 5000'",
                        <<>>)
       ELSE IF intent = "send"
       THEN IF amount > 0 /\ receiver # ""
            THEN LET b == BitnobRequest("send_bitcoin", outcome)
                 IN Answer(IF b.success THEN "Bitcoin Sent Successfully"
                           ELSE "Sorry, I couldn't send Bitcoin. ", b.calls)
            ELSE Answer("Please specify amount and recipient. Example: 'Send ₦2000 worth of BTC to Mary'",
                        <<>>)
       ELSE IF intent = "withdraw"
       THEN IF amount > 0 THEN Answer("Withdrawal Request", <<>>)
            ELSE Answer("Please specify an amount to withdraw. Example: 'Withdraw ₦10000'",
                        <<>>)
       ELSE IF intent = "receive"
       THEN LET b == BitnobRequest("get_wallet_balance", outcome)
            IN Answer(IF b.success THEN "Receive Bitcoin"
                      ELSE "Sorry, I couldn't get your Bitcoin address. Please try again.",
                      b.calls)
       ELSE IF intent = "transactions"
       THEN LET b == BitnobRequest("get_transaction_history", outcome)
            IN Answer(IF b.success
                      THEN "No transactions found. Start by depositing some Naira to get Bitcoin!"
                      ELSE "Sorry, I couldn't get your transaction history. ",
                      b.calls)
       ELSE Answer("I understand you want to perform a financial action, but I need more details. Please try again or type /help for commands.",
                   <<>>)

\* the words _handle_greeting looks for
greetings == {"hi", "hello", "hey", "good morning", "good afternoon",
              "good evening", "hi bitzapp", "hello bitzapp", "hey bitzapp",
              "hi there", "hello there", "start", "begin", "get started",
              "new user", "first time"}

\* the test _handle_greeting makes of the message
IsGreeting(m) ==
    \E greeting \in greetings : Contains(Strip(Lower(m)), greeting)
\* the same, tabulated once for the texts drawn here
Greeting == [m \in ChatInputs |-> IsGreeting(m)] @@ <<>>

\* _handle_greeting: a reply, or None when the message is no greeting
HandleGreeting(W, m, user) ==
    IF Greeting[m]
    THEN IF HasWallet(W, user) THEN <<"Hello! Great to see you again.">>
         ELSE <<"Hello! Welcome to Bitzapp.">>
    ELSE None

\* generate_chat_response
GenerateChatResponse(m) ==
    LET message_lower == Lower(m)
        any(words) == \E word \in words : Contains(message_lower, word)
    IN IF any({"what is bitcoin", "bitcoin", "btc"})
       THEN "Bitcoin is a decentralized digital currency that allows peer-to-peer transactions without banks. It's secure, global, and you control your own money."
       ELSE IF any({"lightning", "lightning network"})
       THEN "The Lightning Network enables instant, low-fee Bitcoin payments. It's perfect for small transactions and makes Bitcoin as fast as sending a text message."
       ELSE IF any({"secure", "security", "safe"})
       THEN "Your Bitcoin is secure because you control your private keys. We never store your seed phrase, so only you can access your funds."
       ELSE IF any({"price", "rate", "exchange rate"})
       THEN "Bitcoin prices change in real-time. You can check current rates when you deposit or withdraw. The system automatically converts at the best available rate."
       ELSE IF any({"how does", "how to", "how can"})
       THEN "Bitzapp makes Bitcoin simple! Create a wallet, deposit Naira to get Bitcoin, send Bitcoin instantly, or withdraw to your Nigerian bank account."
       ELSE "I'm here to help with your Bitcoin wallet! You can create a wallet, deposit Naira, send Bitcoin, or ask me about Bitcoin basics. What would you like to do?"

\* the same, tabulated once for the texts drawn here
ChatResponse == [m \in ChatInputs |-> GenerateChatResponse(m)] @@ <<>>

\* _handle_chat_intent
HandleChatIntent(W, user, m) ==
    IF HandleGreeting(W, m, user) # None THEN HandleGreeting(W, m, user)[1]
    ELSE ChatResponse[m]

\* what get_chat_response does with the record c that classify_intent gave
RespondTo(W, user, m, c, outcome) ==
    IF c.result["intent"] # "chat"
    THEN LET f == HandleFinancialIntent(user, c.result, outcome)
         IN [ret |-> f.ret, calls |-> c.calls \o f.calls,
             intent_data |-> c.result]
    ELSE [ret |-> HandleChatIntent(W, user, m), calls |-> c.calls,
          intent_data |-> c.result]

\* get_chat_response: the message is classified once, the record is handed
\* to the handler of its intent, and the handler's reply is returned
GetChatResponse(W, user, m, api_key, fault, h, outcome) ==
    RespondTo(W, user, m, Classified[m, api_key, fault, h], outcome)

(***************************************************************************)
(* The command handlers of core/command_handlers.py                        *)
(***************************************************************************)
\* what a handler did: the reply it returned or the exception that left it,
\* the rows it left and the remote calls it made.  A reply is written as its
\* heading, the emoji left out, followed by the values the text carries.
Returned(text, W, D, made) ==
    [raised |-> FALSE, ret |-> text, wallets |-> W, naira_deposits |-> D,
     calls |-> made]
Escaped(type, W, D, made) ==
    [raised |-> TRUE, ret |-> type, wallets |-> W, naira_deposits |-> D,
     calls |-> made]

NoWalletFound == "No Wallet Found"

\* Decimal(token) succeeds
DecimalOk(token) == FloatOk(token)

\* ' '.join(parts[i:j]) for 0-based i and j
RECURSIVE Join(_, _, _)
Join(parts, i, j) ==
    IF i >= j \/ i >= Len(parts) THEN ""
    ELSE IF i + 1 >= j \/ i + 1 >= Len(parts) THEN parts[i + 1]
    ELSE parts[i + 1] \o " " \o Join(parts, i + 1, j)

\* handle_create_wallet_command
HandleCreateWalletCommand(W, D, user, seed_phrase) ==
    LET wallet_result == CreateNonCustodialWallet(W, user, seed_phrase)
    IN IF wallet_result.raised
       THEN IF wallet_result.type = "ValueError"
            THEN Returned(wallet_result.text, W, D, <<>>)
            ELSE Returned("Sorry, I couldn't create your wallet. Please try again.",
                          W, D, <<>>)
       ELSE IF wallet_result.value.seed_phrase = "EXISTING_WALLET"
       THEN Returned("Non-Custodial Wallet Already Exists! Your Bitcoin Address: "
                         \o wallet_result.value.bitcoin_address,
                     wallet_result.wallets, D, <<>>)
       ELSE Returned("Non-Custodial Wallet Created! Your 12-Word Seed Phrase: "
                         \o wallet_result.value.seed_phrase
                         \o " Your Bitcoin Address: "
                         \o wallet_result.value.bitcoin_address,
                     wallet_result.wallets, D, <<>>)

\* handle_import_wallet_command
HandleImportWalletCommand(W, D, user, m, valid) ==
    LET parts == Split(m)
        wallet_result == ImportWalletFromSeed(W, user, Join(parts, 1, 13), valid)
    IN IF Len(parts) < 13 THEN Returned("Import Existing Wallet", W, D, <<>>)
       ELSE IF wallet_result.raised
       THEN IF wallet_result.type = "ValueError"
            THEN Returned("Invalid seed phrase: " \o wallet_result.text, W, D, <<>>)
            ELSE Returned("Sorry, I couldn't import your wallet. Please check your seed phrase and try again.",
                          W, D, <<>>)
       ELSE Returned("Wallet Imported Successfully! Your Bitcoin Address: "
                         \o wallet_result.value.bitcoin_address,
                     wallet_result.wallets, D, <<>>)

\* handle_wallet_info_command
HandleWalletInfoCommand(W, D) == Returned("Wallet Types Explained", W, D, <<>>)

\* the first number of the message: re.search(r'(\d+(?:\.\d+)?)', message)
DepositAmountRe == Grp(1, PlainAmountRe)

\* handle_deposit_command
HandleDepositCommand(W, D, user, m) ==
    LET amount_match == Search(DepositAmountRe, m)
    IN IF amount_match = NoMatch
       THEN Returned("Deposit Naira to Convert to Bitcoin", W, D, <<>>)
       ELSE Returned("Deposit Request Created", W,
                     CreateNairaDeposit(D, user, Float(amount_match[1][1][1])),
                     <<>>)

\* handle_balance_command
HandleBalanceCommand(W, D, user) ==
    IF ~HasWallet(W, user) THEN Returned(NoWalletFound, W, D, <<>>)
    ELSE Returned("Your Bitcoin Wallet Balance", W, D, <<>>)

SendUsageCustodial == "Send Bitcoin (Custodial Wallet)"
SendUsageNonCustodial == "Send Bitcoin (Non-Custodial Wallet)"
SendError ==
    "Sorry, I couldn't process your send request. Please check the format and try again."

\* a variant of handle_send_command that takes an amount and an address from
\* every wallet and never asks for the twelve words
HandleSendCommand_AddressOnly(W, D, user, m) ==
    LET parts == Split(m)
        wallet == GetWallet(W, user)
        amount == SatsOfBtc(Float(parts[2]))
        sent == SendBitcoin(W, user, parts[3], amount, "")
    IN IF ~HasWallet(W, user) THEN Returned(NoWalletFound, W, D, <<>>)
       ELSE IF Len(parts) < 3 THEN Returned(SendUsageCustodial, W, D, <<>>)
       ELSE IF ~DecimalOk(parts[2]) THEN Returned(SendError, W, D, <<>>)
       ELSE IF amount <= 0
       THEN Returned("Amount must be greater than 0", W, D, <<>>)
       ELSE IF wallet.balance_btc < amount
       THEN Returned("Insufficient Balance", W, D, <<>>)
       ELSE IF sent.raised THEN Returned(SendError, W, D, <<>>)
       ELSE Returned("Bitcoin Sent Successfully!", sent.wallets, D, <<>>)

\* handle_send_command: a custodial wallet sends on an amount and an address,
\* a non-custodial one asks for the twelve words as well
HandleSendCommand(W, D, user, m) ==
    LET parts == Split(m)
        wallet == GetWallet(W, user)
        amount == SatsOfBtc(Float(parts[2]))
        seed_phrase == IF wallet.wallet_type = "custodial" THEN ""
                       ELSE Join(parts, 3, 15)
        sent == SendBitcoin(W, user, parts[3], amount, seed_phrase)
    IN IF ~HasWallet(W, user) THEN Returned(NoWalletFound, W, D, <<>>)
       ELSE IF wallet.wallet_type = "custodial" /\ Len(parts) < 3
       THEN Returned(SendUsageCustodial, W, D, <<>>)
       ELSE IF wallet.wallet_type = "non_custodial" /\ Len(parts) < 15
       THEN Returned(SendUsageNonCustodial, W, D, <<>>)
       ELSE IF ~DecimalOk(parts[2]) THEN Returned(SendError, W, D, <<>>)
       ELSE IF amount <= 0
       THEN Returned("Amount must be greater than 0", W, D, <<>>)
       ELSE IF wallet.balance_btc < amount
       THEN Returned("Insufficient Balance", W, D, <<>>)
       ELSE IF sent.raised THEN Returned(SendError, W, D, <<>>)
       ELSE Returned("Bitcoin Sent Successfully!", sent.wallets, D, <<>>)

\* handle_receive_command
HandleReceiveCommand(W, D, user, private_key) ==
    LET balance == GetWalletBalance(W, user, private_key)
    IN IF balance.raised
       THEN Returned("Sorry, I couldn't retrieve your Bitcoin address. Please try again.",
                     W, D, <<>>)
       ELSE Returned("Receive Bitcoin Your Bitcoin Address: "
                         \o balance.value.bitcoin_address,
                     balance.wallets, D, <<>>)

\* the active BillProvider rows, by lower-cased name
BillProviders == {"mtn", "airtel"}

BillPaymentSuccessful == "Bill Payment Successful!"
PaybillError ==
    "Sorry, I couldn't process your bill payment. Please check the format and try again."

\* handle_paybill_command
HandlePaybillCommand(W, D, user, m, private_key, outcome) ==
    LET parts == Split(m)
        amount == Float(parts[3])
        balance == GetWalletBalance(W, user, private_key)
        bill_payment == PayBill(balance.wallets, user, amount, outcome)
        made == ProviderCalls("mavapay.bills.pay", outcome)
    IN IF Len(parts) < 3 THEN Returned("Pay Bills with Bitcoin", W, D, <<>>)
       ELSE IF ~DecimalOk(parts[3]) THEN Returned(PaybillError, W, D, <<>>)
       ELSE IF amount <= 0
       THEN Returned("Amount must be greater than 0", W, D, <<>>)
       ELSE IF Lower(parts[2]) \notin BillProviders
       THEN Returned("Provider '" \o Lower(parts[2]) \o "' not found. Use /paybill to see available providers.",
                     W, D, <<>>)
       ELSE IF balance.raised THEN Returned(PaybillError, W, D, <<>>)
       ELSE IF balance.value.balance_btc < BtcOfNgn(amount)
       THEN Returned("Insufficient Balance", balance.wallets, D, <<>>)
       ELSE IF bill_payment.raised
       THEN Returned(PaybillError, balance.wallets, D, made)
       ELSE Returned(BillPaymentSuccessful, bill_payment.wallets, D, made)

\* handle_withdraw_command
HandleWithdrawCommand(W, D, user, m, outcome) ==
    LET parts == Split(m)
        amount_btc == SatsOfBtc(Float(parts[2]))
        withdrawal == CreateNairaWithdrawal(W, user, amount_btc)
        success == ProcessNairaWithdrawal(W, withdrawal.value, outcome)
        made == ProviderCalls("bitnob.withdrawals", outcome)
    IN IF Len(parts) < 5
       THEN Returned("Withdraw Bitcoin to Nigerian Bank Account", W, D, <<>>)
       ELSE IF ~DecimalOk(parts[2])
       THEN Returned("Sorry, I couldn't process your withdrawal request. Please check the format and try again.",
                     W, D, <<>>)
       ELSE IF amount_btc <= 0
       THEN Returned("Amount must be greater than 0", W, D, <<>>)
       ELSE IF ~HasWallet(W, user) THEN Returned(NoWalletFound, W, D, <<>>)
       ELSE IF GetWallet(W, user).balance_btc < amount_btc
       THEN Returned("Insufficient Balance", W, D, <<>>)
       ELSE IF withdrawal.raised
       THEN Returned("Error: " \o withdrawal.text, W, D, <<>>)
       ELSE IF success.value
       THEN Returned("Withdrawal Request Successful!", success.wallets, D, made)
       ELSE Returned("Withdrawal Failed", W, D, made)

\* int(token) succeeds
IntOk(token) ==
    Unsigned(token) # "" /\ CharsOf(Unsigned(token)) \subseteq Digits

\* handle_lightning_invoice_command
HandleLightningInvoiceCommand(W, D, user, m, outcome) ==
    LET parts == Split(m)
        amount_sats == Float(parts[2]) \div Scale
        invoice == CreateLightningInvoice(W, user, amount_sats, outcome)
        made == ProviderCalls("bitnob.lightning.invoices", outcome)
    IN IF Len(parts) < 2
       THEN Returned("Lightning Invoice Command", W, D, <<>>)
       ELSE IF ~IntOk(parts[2])
       THEN Returned("Invalid amount. Please provide a number of satoshis",
                     W, D, <<>>)
       ELSE IF amount_sats <= 0
       THEN Returned("Amount must be greater than 0 satoshis", W, D, <<>>)
       ELSE IF invoice.raised
       THEN Returned("Error creating Lightning invoice: " \o invoice.text,
                     W, D, made)
       ELSE Returned("Lightning Invoice Created!", W, D, made)

InsufficientBitcoinBalance == "Insufficient Bitcoin Balance"

\* handle_lightning_pay_command.  The 'Insufficient Bitcoin Balance' reply of
\* the except ValueError clause reads payment.amount_btc, and payment is the
\* name the failed call was to assign: reading it raises UnboundLocalError,
\* which leaves the handler, no except clause being around that one
HandleLightningPayCommand(W, D, user, m, outcome) ==
    LET parts == Split(m)
        payment == PayLightningInvoice(W, user, parts[2], outcome)
        made == IF HasWallet(W, user)
                   /\ GetWallet(W, user).balance_btc
                          >= BtcOfSats(ParsePaymentRequestAmount(parts[2]))
                THEN ProviderCalls("bitnob.lightning.payments", outcome)
                ELSE <<>>
    IN IF Len(parts) < 2
       THEN Returned("Lightning Payment Command", W, D, <<>>)
       ELSE IF ~StartsWith(parts[2], "lnbc")
       THEN Returned("Invalid payment request. Must start with 'lnbc'",
                     W, D, <<>>)
       ELSE IF ~payment.raised
       THEN Returned("Lightning Payment Successful!", payment.wallets, D, made)
       ELSE IF payment.type = "ValueError"
       THEN IF Contains(payment.text, "Insufficient Bitcoin balance")
            THEN Escaped("UnboundLocalError", W, D, made)
            ELSE Returned("Error: " \o payment.text, W, D, made)
       ELSE Returned("Error processing Lightning payment: " \o payment.text,
                     W, D, made)

\* handle_lightning_status_command, found being whether the user has an
\* invoice of that id
HandleLightningStatusCommand(W, D, user, m, found, outcome) ==
    LET parts == Split(m)
    IN IF Len(parts) < 2 THEN Returned("Lightning Status Command", W, D, <<>>)
       ELSE IF ~found
       THEN Returned("Lightning invoice not found: " \o parts[2], W, D, <<>>)
       ELSE Returned("Lightning Invoice Status", W, D,
                     ProviderCalls("bitnob.lightning.invoices", outcome))

\* handle_lightning_history_command
HandleLightningHistoryCommand(W, D, user) ==
    Returned("Lightning Payment History", W, D, <<>>)

\* handle_help_command
HandleHelpCommand(W, D) ==
    Returned("Bitzapp Bitcoin Wallet Commands", W, D, <<>>)

\* handle_unknown_command
HandleUnknownCommand(W, D) == Returned("Unknown Command", W, D, <<>>)

\* the reply of get_chat_response, as what a handler returned
ChatReturned(response, W, D) ==
    [raised |-> FALSE, ret |-> response.ret, wallets |-> W,
     naira_deposits |-> D, calls |-> response.calls,
     intent_data |-> response.intent_data]

\* handle_ai_chat
HandleAiChat(W, D, user, m, api_key, fault, h, outcome) ==
    ChatReturned(GetChatResponse(W, user, m, api_key, fault, h, outcome), W, D)

\* handle_ask_command: the text after '/ask' is put to get_chat_response
HandleAskCommand(W, D, user, m, api_key, fault, h, outcome) ==
    LET question == Strip(SubSeq(m, 5, Len(m)))
    IN IF question = "" THEN Returned("Ask Me Anything!", W, D, <<>>)
       ELSE HandleAiChat(W, D, user, question, api_key, fault, h, outcome)

(***************************************************************************)
(* process_command, one inbound message at a time                          *)
(***************************************************************************)
\* the handler process_command picks: the first prefix that fits
Route(m) ==
    IF StartsWith(m, "/create") THEN "handle_create_wallet_command"
    ELSE IF StartsWith(m, "/import") THEN "handle_import_wallet_command"
    ELSE IF StartsWith(m, "/wallet") THEN "handle_wallet_info_command"
    ELSE IF StartsWith(m, "/save") \/ StartsWith(m, "/deposit")
    THEN "handle_deposit_command"
    ELSE IF StartsWith(m, "/balance") THEN "handle_balance_command"
    ELSE IF StartsWith(m, "/send") THEN "handle_send_command"
    ELSE IF StartsWith(m, "/receive") THEN "handle_receive_command"
    ELSE IF StartsWith(m, "/paybill") THEN "handle_paybill_command"
    ELSE IF StartsWith(m, "/withdraw") THEN "handle_withdraw_command"
    ELSE IF StartsWith(m, "/lightning ")
    THEN "handle_lightning_invoice_command"
    ELSE IF StartsWith(m, "/lightningpay ") THEN "handle_lightning_pay_command"
    ELSE IF StartsWith(m, "/lightningstatus ")
    THEN "handle_lightning_status_command"
    ELSE IF StartsWith(m, "/lightninghistory")
    THEN "handle_lightning_history_command"
    ELSE IF StartsWith(m, "/ask") THEN "handle_ask_command"
    ELSE IF StartsWith(m, "/help") THEN "handle_help_command"
    ELSE IF StartsWith(m, "/") THEN "handle_unknown_command"
    ELSE "handle_ai_chat"

ProcessCommandError ==
    "Sorry, I encountered an error processing your request. Please try again."

\* a variant of process_command without its except clause
ProcessCommandReply_NoExcept(handled) ==
    [raised |-> handled.raised, text |-> handled.ret]

\* what process_command returns: the handler's reply, or the fixed apology
\* of its except clause when the handler raised
ProcessCommandReply(handled) ==
    IF handled.raised THEN [raised |-> FALSE, text |-> ProcessCommandError]
    ELSE [raised |-> FALSE, text |-> handled.ret]

\* whether the pattern matching raises, for a text
Faults(text) == IF text \in FaultyTexts THEN BOOLEAN ELSE {FALSE}

\* the handler of each text drawn here
Routed == [text \in AppMessages |-> Route(Normalised[text])] @@ <<>>
\* the texts process_command hands to handler
TextsFor(handler) == {text \in AppMessages : Routed[text] = handler}

\* process_command(user, text) ran handler, which did handled
Answered(user, text, handled) ==
    /\ inbound = Unset
    /\ Len(handled.naira_deposits) <= MaxDeposits
    /\ inbound' = [user |-> user, text |-> text]
    /\ wallets' = handled.wallets
    /\ naira_deposits' = handled.naira_deposits
    /\ calls' = handled.calls
    /\ handler_result' = [raised |-> handled.raised, ret |-> handled.ret]
    /\ reply' = ProcessCommandReply(handled)
    /\ intent_data' = Get(handled, "intent_data", Unset)
    /\ UNCHANGED <<classifier_vars, side_vars>>

CreateWalletCommand ==
    \E user \in Users, text \in TextsFor("handle_create_wallet_command"),
       seed_phrase \in SeedPhrases :
        Answered(user, text,
                 HandleCreateWalletCommand(wallets, naira_deposits, user,
                                           seed_phrase))

ImportWalletCommand ==
    \E user \in Users, text \in TextsFor("handle_import_wallet_command"),
       valid \in BOOLEAN :
        Answered(user, text,
                 HandleImportWalletCommand(wallets, naira_deposits, user,
                                           Normalised[text], valid))

WalletInfoCommand ==
    \E user \in Users, text \in TextsFor("handle_wallet_info_command") :
        Answered(user, text, HandleWalletInfoCommand(wallets, naira_deposits))

DepositCommand ==
    \E user \in Users, text \in TextsFor("handle_deposit_command") :
        Answered(user, text,
                 HandleDepositCommand(wallets, naira_deposits, user,
                                      Normalised[text]))

BalanceCommand ==
    \E user \in Users, text \in TextsFor("handle_balance_command") :
        Answered(user, text,
                 HandleBalanceCommand(wallets, naira_deposits, user))

SendCommand ==
    \E user \in Users, text \in TextsFor("handle_send_command") :
        Answered(user, text,
                 HandleSendCommand(wallets, naira_deposits, user,
                                   Normalised[text]))

ReceiveCommand ==
    \E user \in Users, text \in TextsFor("handle_receive_command"),
       private_key \in PrivateKeys :
        Answered(user, text,
                 HandleReceiveCommand(wallets, naira_deposits, user,
                                      private_key))

PaybillCommand ==
    \E user \in Users, text \in TextsFor("handle_paybill_command"),
       private_key \in PrivateKeys, outcome \in ProviderOutcomes :
        Answered(user, text,
                 HandlePaybillCommand(wallets, naira_deposits, user,
                                      Normalised[text], private_key, outcome))

WithdrawCommand ==
    \E user \in Users, text \in TextsFor("handle_withdraw_command"),
       outcome \in ProviderOutcomes :
        Answered(user, text,
                 HandleWithdrawCommand(wallets, naira_deposits, user,
                                       Normalised[text], outcome))

LightningInvoiceCommand ==
    \E user \in Users, text \in TextsFor("handle_lightning_invoice_command"),
       outcome \in ProviderOutcomes :
        Answered(user, text,
                 HandleLightningInvoiceCommand(wallets, naira_deposits, user,
                                               Normalised[text], outcome))

LightningPayCommand ==
    \E user \in Users, text \in TextsFor("handle_lightning_pay_command"),
       outcome \in ProviderOutcomes :
        Answered(user, text,
                 HandleLightningPayCommand(wallets, naira_deposits, user,
                                           Normalised[text], outcome))

LightningStatusCommand ==
    \E user \in Users, text \in TextsFor("handle_lightning_status_command"),
       found \in BOOLEAN, outcome \in ProviderOutcomes :
        Answered(user, text,
                 HandleLightningStatusCommand(wallets, naira_deposits, user,
                                              Normalised[text], found, outcome))

LightningHistoryCommand ==
    \E user \in Users, text \in TextsFor("handle_lightning_history_command") :
        Answered(user, text,
                 HandleLightningHistoryCommand(wallets, naira_deposits, user))

AskCommand ==
    \E user \in Users, text \in TextsFor("handle_ask_command") :
    \E fault \in Faults(text), h \in AppHttpOutcomes, outcome \in BitnobOutcomes :
        Answered(user, text,
                 HandleAskCommand(wallets, naira_deposits, user,
                                  Normalised[text], gemini_api_key, fault, h,
                                  outcome))

HelpCommand ==
    \E user \in Users, text \in TextsFor("handle_help_command") :
        Answered(user, text, HandleHelpCommand(wallets, naira_deposits))

UnknownCommand ==
    \E user \in Users, text \in TextsFor("handle_unknown_command") :
        Answered(user, text, HandleUnknownCommand(wallets, naira_deposits))

AiChat ==
    \E user \in Users, text \in TextsFor("handle_ai_chat") :
    \E fault \in Faults(text), h \in AppHttpOutcomes, outcome \in BitnobOutcomes :
        Answered(user, text,
                 HandleAiChat(wallets, naira_deposits, user, Normalised[text],
                              gemini_api_key, fault, h, outcome))

\* a service method called outside process_command did done
Served(user, method, amount, done) ==
    /\ inbound = Unset
    /\ inbound' = [user |-> user, text |-> method, amount |-> amount]
    /\ wallets' = done.wallets
    /\ calls' = <<>>
    /\ handler_result' = [raised |-> done.raised, ret |-> done.text]
    /\ reply' = Unset
    /\ intent_data' = Unset
    /\ UNCHANGED <<classifier_vars, side_vars>>

\* BitcoinWalletService.receive_bitcoin for an incoming transaction
OnReceiveBitcoin ==
    \E user \in Users, private_key \in PrivateKeys :
        /\ \A w \in wallets :
               w.user = user => w.balance_btc + CreditSats <= MaxCredit * CreditSats
        /\ Served(user, "receive_bitcoin", CreditSats,
                  ReceiveBitcoin(wallets, user, CreditSats, private_key))
        /\ UNCHANGED naira_deposits

\* PaymentService.process_naira_deposit for a deposit that was paid
OnProcessNairaDeposit ==
    \E i \in DOMAIN naira_deposits :
        LET done == ProcessNairaDeposit(wallets, naira_deposits, i)
        IN /\ inbound = Unset
           /\ \A w \in done.wallets : w.balance_btc <= MaxCredit * CreditSats
           /\ inbound' = [user |-> naira_deposits[i].user,
                          text |-> "process_naira_deposit",
                          amount |-> naira_deposits[i].amount_btc]
           /\ wallets' = done.wallets
           /\ naira_deposits' = done.naira_deposits
           /\ calls' = <<>>
           /\ handler_result' = [raised |-> FALSE, ret |-> ""]
           /\ reply' = Unset
           /\ intent_data' = Unset
           /\ UNCHANGED <<classifier_vars, side_vars>>

\* BitcoinWalletService.send_bitcoin called with an amount
OnSendBitcoin ==
    \E user \in Users, k \in 1..(MaxCredit + 1) :
        /\ Served(user, "send_bitcoin", k * CreditSats,
                  SendBitcoin(wallets, user, "bc1q", k * CreditSats, Seed1))
        /\ UNCHANGED naira_deposits

\* PaymentService.pay_bill called with an amount
OnPayBill ==
    \E user \in Users, k \in 1..(MaxCredit + 1), outcome \in ProviderOutcomes :
        /\ Served(user, "pay_bill", k * CreditSats,
                  PayBill(wallets, user, k * 50000 * Scale, outcome))
        /\ UNCHANGED naira_deposits

\* process_message sends the reply process_command returned, and the
\* message is dealt with
SendWhatsappMessage ==
    /\ reply # Unset
    /\ inbound' = Unset
    /\ calls' = <<>>
    /\ handler_result' = Unset
    /\ reply' = Unset
    /\ intent_data' = Unset
    /\ UNCHANGED <<wallets, naira_deposits, classifier_vars, side_vars>>

\* a service method called outside process_command is back with its caller
ServiceReturned ==
    /\ inbound # Unset
    /\ reply = Unset
    /\ inbound' = Unset
    /\ calls' = <<>>
    /\ handler_result' = Unset
    /\ UNCHANGED <<wallets, naira_deposits, reply, intent_data, classifier_vars,
                   side_vars>>

AppNext ==
    \/ CreateWalletCommand
    \/ ImportWalletCommand
    \/ WalletInfoCommand
    \/ DepositCommand
    \/ BalanceCommand
    \/ SendCommand
    \/ ReceiveCommand
    \/ PaybillCommand
    \/ WithdrawCommand
    \/ LightningInvoiceCommand
    \/ LightningPayCommand
    \/ LightningStatusCommand
    \/ LightningHistoryCommand
    \/ AskCommand
    \/ HelpCommand
    \/ UnknownCommand
    \/ AiChat
    \/ OnReceiveBitcoin
    \/ OnProcessNairaDeposit
    \/ OnSendBitcoin
    \/ OnPayBill
    \/ SendWhatsappMessage
    \/ ServiceReturned

AppSpec == Init /\ [][AppNext]_vars

(***************************************************************************)
(* The claims about process_command                                        *)
(***************************************************************************)
\* process_command has answered a message and the reply is not yet sent
Processed == DOMAIN inbound = {"user", "text"}
\* the same, for the given text
ProcessedText(text) == Processed /\ inbound.text = text
\* a service method was called outside process_command and has returned
ServiceCalled == DOMAIN inbound = {"user", "text", "amount"}
\* the message went through get_chat_response
ChatPath ==
    Processed /\ Routed[inbound.text] \in {"handle_ai_chat", "handle_ask_command"}

\* C11: while one message goes through get_chat_response, the remote
\* classification endpoint is requested at most once, and no failed call is
\* made again: a call that is followed by another call succeeded, and the
\* later call is to another endpoint.
C11_NoRetry ==
    ChatPath =>
        /\ Cardinality({i \in DOMAIN calls : calls[i].api = "gemini"}) <= 1
        /\ \A i, j \in DOMAIN calls :
               i < j => calls[i].ok /\ calls[i].api # calls[j].api

\* the remote classifier answered and the provider call that followed failed
C11_Witness ==
    /\ ChatPath
    /\ Len(calls) = 2
    /\ calls[1] = [api |-> "gemini", ok |-> TRUE]
    /\ ~calls[2].ok

\* C12: process_command returns a reply that is not empty, for every text and
\* every outcome of the providers, and never raises.
C12_AlwaysReplies == Processed => reply.raised = FALSE /\ reply.text # ""

\* a handler raised and process_command returned its apology
C12_Witness ==
    /\ Processed
    /\ handler_result.raised
    /\ reply = [raised |-> FALSE, text |-> ProcessCommandError]

\* C13: every command handler returns a reply and never raises, whatever the
\* services do; in particular handle_lightning_pay_command returns its
\* 'Insufficient Bitcoin Balance' reply when pay_lightning_invoice raises
\* ValueError("Insufficient Bitcoin balance").
C13_HandlersNeverRaise == Processed => handler_result.raised = FALSE

\* the replies that confirm a success
SuccessReplies ==
    {BillPaymentSuccessful, "Bitcoin Sent Successfully!",
     "Bitcoin Sent Successfully", "Deposit Request Created",
     "Wallet Created Successfully", "Withdrawal Request Successful!",
     "Lightning Invoice Created!", "Lightning Payment Successful!"}

\* C14: when a provider call made for a message reports failure or raises, the
\* reply is no success confirmation; for /paybill, 'Bill Payment Successful'
\* is returned only if the provider accepted the payment.
C14_FailureIsNeverSuccess ==
    Processed /\ (\E i \in DOMAIN calls : ~calls[i].ok) =>
        reply.text \notin SuccessReplies

\* the prompts for a missing amount or recipient
DepositPrompts ==
    {"Please specify an amount to deposit. Example: 'Deposit ₦5000' or '/deposit 5000'",
     "Deposit Naira to Convert to Bitcoin"}
SendPrompt ==
    "Please specify amount and recipient. Example: 'Send ₦2000 worth of BTC to Mary'"
\* get_chat_response classified the message as intent
ClassifiedAs(intent) ==
    Processed /\ intent_data # Unset /\ intent_data["intent"] = intent
\* the remote calls made for the message, by endpoint
Called(api) == \E i \in DOMAIN calls : calls[i].api = api

\* C15: a deposit whose amount is missing or <= 0, written in words or as
\* '/deposit 0', gets the 'specify an amount' prompt and creates no deposit
\* request or record; a send whose amount is missing or <= 0 or whose
\* receiver is missing gets the 'specify amount and recipient' prompt and
\* makes no provider send call.
C15_ValidationFirst ==
    /\ \A i \in DOMAIN naira_deposits : naira_deposits[i].amount_ngn > 0
    /\ ProcessedText("/deposit 0") => reply.text \in DepositPrompts
    /\ ClassifiedAs("deposit") /\ Get(intent_data, "amount", 0) <= 0 =>
           reply.text \in DepositPrompts /\ ~Called("deposit_naira")
    /\ ClassifiedAs("send")
       /\ (Get(intent_data, "amount", 0) <= 0 \/ Get(intent_data, "receiver", "") = "") =>
           reply.text = SendPrompt /\ ~Called("send_bitcoin")

\* C16: "Send 0.001 BTC to John" resolves to a send record of amount 0.001
\* whose receiver is the recipient as the user wrote it, "John".
C16_ReceiverAsWritten ==
    pc = "done" /\ message = "Send 0.001 BTC to John" /\ ~regex_fault =>
        /\ Get(result, "intent", "") = "send"
        /\ Get(result, "amount", 0) = 1
        /\ Get(result, "receiver", "") = "John"

\* C17: with no AI credential, "What is Bitcoin?" is classified as chat with
\* the message "what is bitcoin?", the reply is the canned Bitcoin explainer
\* and no wallet or provider handler is invoked.
C17_BitcoinExplainer ==
    ProcessedText("What is Bitcoin?") /\ gemini_api_key = "" =>
        /\ intent_data = ChatRecord("what is bitcoin?")
        /\ reply.text = ChatResponse["what is bitcoin?"]
        /\ calls = <<>>

\* the wallet rows of the user whose message was answered
OwnWallets == {w \in wallets : w.user = inbound.user}

\* C18, as stated: "/send 0.001 <address>", an amount and an address and
\* nothing more, gets the /send usage help for every user, whatever wallet
\* they have.
C18_UsageForEveryUser ==
    ProcessedText("/send 0.001 bc1q") =>
        reply.text \in {SendUsageCustodial, SendUsageNonCustodial}

\* C18, amended: "/send 0.001 <address>" gets the usage help when the user's
\* wallet is non-custodial; a user without a wallet is told so, and for a
\* custodial wallet the two arguments are a complete send, which is carried
\* out or refused for its balance.
C18_UsageForNonCustodial ==
    ProcessedText("/send 0.001 bc1q") =>
        /\ OwnWallets = {} => reply.text = NoWalletFound
        /\ \A w \in OwnWallets :
               /\ w.wallet_type = "non_custodial" =>
                      reply.text = SendUsageNonCustodial
               /\ w.wallet_type = "custodial" =>
                      reply.text \in {"Bitcoin Sent Successfully!",
                                      "Insufficient Balance", SendError}

\* a user with a non-custodial wallet sent the two arguments and got the help
C18_Witness ==
    /\ ProcessedText("/send 0.001 bc1q")
    /\ \E w \in OwnWallets : w.wallet_type = "non_custodial"
    /\ reply.text = SendUsageNonCustodial

\* the user has a non-custodial wallet
HasNonCustodial(user) ==
    \E w \in wallets : w.user = user /\ w.wallet_type = "non_custodial"
\* what /create answers when the wallet exists
AlreadyExists(w) ==
    "Non-Custodial Wallet Already Exists! Your Bitcoin Address: "
        \o w.bitcoin_address
\* the line of a reply that shows a seed phrase
SeedPhraseLine(seed_phrase) == "Seed Phrase: " \o seed_phrase
\* process_command answers '/create' for a user who has a non-custodial wallet
CreateAgain(user) ==
    /\ HasNonCustodial(user)
    /\ ProcessedText("/create")'
    /\ inbound'.user = user

\* C19: no user ever has more than one wallet, and a '/create' from a user
\* who has a non-custodial wallet reports that wallet, returns no seed phrase
\* and leaves the wallet rows (address, seed-phrase hash, balance) as they
\* were.
C19_CreateIsIdempotent ==
    /\ [](\A w1, w2 \in wallets : w1.user = w2.user => w1 = w2)
    /\ [][\A user \in Users :
              CreateAgain(user) =>
                  /\ wallets' = wallets
                  /\ \E w \in wallets : w.user = user /\ reply'.text = AlreadyExists(w)
                  /\ \A seed_phrase \in SeedPhrases :
                         ~Contains(reply'.text, SeedPhraseLine(seed_phrase))]_vars

\* '/create' was answered with the wallet that exists, which holds a balance
C19_Witness ==
    /\ ProcessedText("/create")
    /\ \E w \in OwnWallets :
           /\ w.wallet_type = "non_custodial"
           /\ w.balance_btc > 0
           /\ reply.text = AlreadyExists(w)

\* the commands that debit a wallet, with the amount each asks for
DebitTexts ==
    [text \in {"/send 0.001 bc1q", "/paybill mtn 50000",
               "/withdraw 0.001 1234567890 access john",
               "/lightningpay lnbc100000u1p"} |-> SatsOfBtc(1)]
    @@ [text \in {"/SEND 0.002 bc1q " \o Seed1} |-> SatsOfBtc(2)]
\* the service methods that debit a wallet
DebitMethods == {"send_bitcoin", "pay_bill"}

\* the step is a debit of more than the wallet w holds
DebitExceeds(w) ==
    /\ w \in wallets
    /\ DOMAIN inbound' \in {{"user", "text"}, {"user", "text", "amount"}}
    /\ inbound'.user = w.user
    /\ \/ /\ ServiceCalled'
          /\ inbound'.text \in DebitMethods
          /\ inbound'.amount > w.balance_btc
       \/ /\ Processed'
          /\ inbound'.text \in DOMAIN DebitTexts
          /\ DebitTexts[inbound'.text] > w.balance_btc
\* the step failed: the service raised, or the reply confirms nothing
DebitFailed ==
    IF ServiceCalled' THEN handler_result'.raised
    ELSE reply'.text \notin SuccessReplies

\* C20: whatever credits and debits were made, one at a time and with
\* positive amounts, no wallet's balance_btc is below 0, and a debit of more
\* than the wallet holds fails and leaves the balance as it was.
C20_BalanceNeverNegative ==
    /\ [](\A w \in wallets : w.balance_btc >= 0)
    /\ [][\A w \in wallets :
              DebitExceeds(w) => DebitFailed /\ wallets' = wallets]_vars

\* send_bitcoin was asked for more than a funded wallet holds and raised
C20_Witness ==
    /\ ServiceCalled
    /\ inbound.text = "send_bitcoin"
    /\ handler_result.raised
    /\ \E w \in OwnWallets : 0 < w.balance_btc /\ w.balance_btc < inbound.amount

\* C29: a Lightning command sent without an argument is answered by its own
\* handler: '/lightning', '/lightningpay' and '/lightningstatus' each get the
\* usage text of their command, not the unknown-command reply.
C29_LightningUsage ==
    /\ ProcessedText("/lightning") => reply.text = "Lightning Invoice Command"
    /\ ProcessedText("/lightningpay") => reply.text = "Lightning Payment Command"
    /\ ProcessedText("/lightningstatus") => reply.text = "Lightning Status Command"

\* the commands that make a wallet: /create and /import
WalletMaking ==
    {"handle_create_wallet_command", "handle_import_wallet_command"}

\* C25: only /create and /import give a user a wallet: a message that is
\* routed to any other handler leaves a user who had no wallet without one.
C25_OnlyCreateAndImport ==
    [][\A user \in Users :
           /\ ~HasWallet(wallets, user)
           /\ Processed'
           /\ inbound'.user = user
           /\ Routed[inbound'.text] \notin WalletMaking
           => ~HasWallet(wallets', user)]_vars

\* C23: when the record of a send carries currency NGN, its amount is not
\* handed to the provider's send_bitcoin as an amount of BTC: no send_bitcoin
\* request is made with it.
C23_NairaIsNotSentAsBtc ==
    ClassifiedAs("send") /\ Get(intent_data, "currency", "") = "NGN" =>
        ~Called("send_bitcoin")

\* C27: a message that is no command and matches a receive pattern through
\* the word 'receive' is classified by the patterns as receive, and the
\* record has no other field.
C27_ReceiveIsReceive ==
    /\ Processed
    /\ inbound.text \in {"receive bitcoin", "how to receive bitcoin"}
    => intent_data = [intent |-> "receive"]

\* the natural-language path announced a new wallet
WalletAnnounced == Processed /\ reply.text = "Wallet Created Successfully"
\* /balance and a greeting answer by the BitcoinWallet row of the user: with
\* the row the user is a returning one, without it there is no wallet
CountsAsWallet ==
    /\ ProcessedText("/balance") =>
           (reply.text # NoWalletFound <=> HasWallet(wallets, inbound.user))
    /\ ProcessedText("hello") /\ ClassifiedAs("chat") =>
           (reply.text = "Hello! Great to see you again."
                <=> HasWallet(wallets, inbound.user))

\* C26: once a message classified as create_wallet has been answered with
\* 'Wallet Created Successfully', the user has the BitcoinWallet row by which
\* every later greeting and every later /balance take the user to have a
\* wallet.
C26_ChatWalletCounts ==
    /\ CountsAsWallet
    /\ WalletAnnounced => HasWallet(wallets, inbound.user)

\* C22: a send from a non-custodial wallet completes only with the wallet's
\* own seed phrase: when '/send 0.001 <address> <12 words>' is answered with
\* a completed send, the SHA-256 of the words is the stored seed_phrase_hash,
\* and with any other words the balance is as it was.
C22_OwnSeedPhraseOnly ==
    [][\A w \in wallets :
           /\ w.wallet_type = "non_custodial"
           /\ w.seed_phrase_hash # Sha256(Seed1)
           /\ ProcessedText("/send 0.001 bc1q " \o Seed1)'
           /\ inbound'.user = w.user
           => /\ reply'.text # "Bitcoin Sent Successfully!"
              /\ wallets' = wallets]_vars

(***************************************************************************)
(* The other specifications start from the same rest                       *)
(***************************************************************************)
ClassifierIdle ==
    /\ gemini_api_key = ""
    /\ pc = "idle"
    /\ message = ""
    /\ stages = <<>>
    /\ regex_fault = FALSE
    /\ regex_result = Unset
    /\ http = Unset
    /\ gemini_result = Unset
    /\ result = Unset
    /\ requests = 0
AppIdle ==
    /\ wallets = {}
    /\ naira_deposits = <<>>
    /\ inbound = Unset
    /\ calls = <<>>
    /\ handler_result = Unset
    /\ reply = Unset
    /\ intent_data = Unset
RaceIdle == opening_balance = 0 /\ row_balance = 0 /\ procs = <<>>
SessionsIdle == chat_sessions = <<>> /\ chat_messages = <<>>
WebhookIdle ==
    /\ webhook_secret = ""
    /\ webhook_request = Unset
    /\ webhook_response = Unset
    /\ handled_events = <<>>

(***************************************************************************)
(* Two debit commands of one user, served at the same time                 *)
(*                                                                         *)
(* Each request runs its handler in a thread of its own.  The statements   *)
(* that read or write the wallet row are the steps: transaction.atomic()   *)
(* takes no lock on a row that is read with objects.get(), so the steps of *)
(* the two requests interleave in any order.                               *)
(***************************************************************************)
DebitCommands == {"/send", "/withdraw"}
\* the two requests as they arrive
Arrivals ==
    [cmd : DebitCommands, amount : {k * CreditSats : k \in 1..MaxCredit},
     at : {"handler"}, seen : {0}, reply : {""}]

RaceInit ==
    /\ ClassifierIdle /\ AppIdle /\ SessionsIdle /\ WebhookIdle
    /\ naira_withdrawals = <<>>
    /\ opening_balance \in {k * CreditSats : k \in 0..(MaxCredit + 1)}
    /\ row_balance = opening_balance
    /\ procs \in [1..2 -> Arrivals]

\* what the two requests leave alone
RaceRest ==
    UNCHANGED <<classifier_vars, app_vars, naira_withdrawals, session_vars,
                webhook_vars>>

\* request p moves on
Moves(p, at, seen, text) ==
    procs' = [procs EXCEPT ![p].at = at, ![p].seen = seen, ![p].reply = text]
\* request p is answered
Replies(p, text) == Moves(p, "done", procs[p].seen, text)

\* handle_send_command and handle_withdraw_command look at the balance first
HandlerChecksBalance(p) ==
    /\ procs[p].at = "handler"
    /\ IF row_balance < procs[p].amount THEN Replies(p, "Insufficient Balance")
       ELSE Moves(p, IF procs[p].cmd = "/withdraw" THEN "create" ELSE "get",
                  row_balance, "")
    /\ UNCHANGED <<opening_balance, row_balance>>
    /\ RaceRest

\* create_naira_withdrawal: the balance check and the pending row
WithdrawalCreated(p) ==
    /\ procs[p].at = "create"
    /\ IF row_balance < procs[p].amount
       THEN Replies(p, "Error: Insufficient Bitcoin balance")
       ELSE Moves(p, "provider", row_balance, "")
    /\ UNCHANGED <<opening_balance, row_balance>>
    /\ RaceRest

\* process_naira_withdrawal: what _process_withdrawal_with_bitnob returned
ProviderAnswered(p) ==
    /\ procs[p].at = "provider"
    /\ \E success \in BOOLEAN :
           IF success THEN Moves(p, "get", procs[p].seen, "")
           ELSE Replies(p, "Withdrawal Failed")
    /\ UNCHANGED <<opening_balance, row_balance>>
    /\ RaceRest

\* BitcoinWallet.objects.get(user=...) in send_bitcoin, which then checks the
\* balance it read, and in process_naira_withdrawal, which does not
WalletRead(p) ==
    /\ procs[p].at = "get"
    /\ IF procs[p].cmd = "/send" /\ row_balance < procs[p].amount
       THEN Replies(p, SendError)
       ELSE Moves(p, "save", row_balance, "")
    /\ UNCHANGED <<opening_balance, row_balance>>
    /\ RaceRest

\* wallet.balance_btc -= amount; wallet.save(): the balance that was read,
\* less the amount, is written to the row
WalletSaved(p) ==
    /\ procs[p].at = "save"
    /\ row_balance' = procs[p].seen - procs[p].amount
    /\ Replies(p, IF procs[p].cmd = "/send" THEN "Bitcoin Sent Successfully!"
                  ELSE "Withdrawal Request Successful!")
    /\ UNCHANGED opening_balance
    /\ RaceRest

RaceNext ==
    \/ \E p \in 1..2 : HandlerChecksBalance(p)
    \/ \E p \in 1..2 : WithdrawalCreated(p)
    \/ \E p \in 1..2 : ProviderAnswered(p)
    \/ \E p \in 1..2 : WalletRead(p)
    \/ \E p \in 1..2 : WalletSaved(p)

RaceSpec == RaceInit /\ [][RaceNext]_vars

\* request p was answered with a success
Succeeded(p) == procs[p].at = "done" /\ procs[p].reply \in SuccessReplies
\* what the requests answered with a success have taken together
Deducted ==
    (IF Succeeded(1) THEN procs[1].amount ELSE 0)
        + (IF Succeeded(2) THEN procs[2].amount ELSE 0)

MaxWithdrawals == 3
\* process_naira_withdrawal is followed down to this many receipts below zero
MaxOverdraft == 1

\* the provider's answers to a withdrawal
WithdrawalOutcomes == {"demo", "accepted", "refused"}

\* a custodial wallet that holds balance_btc
FundedWallet(user, balance_btc) ==
    [BitcoinWallet(user, "custodial", GenerateBitcoinAddress("0a1b"), "0a1b", "")
        EXCEPT !.balance_btc = balance_btc]

WithdrawalInit ==
    /\ ClassifierIdle /\ RaceIdle /\ SessionsIdle /\ WebhookIdle
    /\ naira_deposits = <<>>
    /\ inbound = Unset
    /\ calls = <<>>
    /\ handler_result = Unset
    /\ reply = Unset
    /\ intent_data = Unset
    /\ \E balance_btc \in {k * CreditSats : k \in 0..(MaxCredit + 1)} :
           wallets = {FundedWallet(user, balance_btc) : user \in Users}
    /\ naira_withdrawals = <<>>

\* all but the wallets and the withdrawals
WithdrawalRest ==
    UNCHANGED <<classifier_vars, naira_deposits, inbound, calls,
                handler_result, reply, intent_data, race_vars, session_vars,
                webhook_vars>>

\* create_naira_withdrawal(user, amount_btc, ...): the row it stored, if any
OnCreateNairaWithdrawal(user, amount_btc) ==
    LET created == CreateNairaWithdrawal(wallets, user, amount_btc)
    IN /\ Len(naira_withdrawals) < MaxWithdrawals
       /\ naira_withdrawals' =
              IF created.raised THEN naira_withdrawals
              ELSE Append(naira_withdrawals, created.value)
       /\ wallets' = created.wallets
       /\ WithdrawalRest

\* process_naira_withdrawal(withdrawal) on the i-th row, whatever its status:
\* 'processing' is saved first, and 'completed' or 'failed' before it returns
OnProcessNairaWithdrawal(i, outcome) ==
    LET withdrawal == naira_withdrawals[i]
        success == ProcessNairaWithdrawal(wallets, withdrawal, outcome)
    IN /\ \A w \in wallets : w.balance_btc > -(MaxOverdraft * CreditSats)
       /\ wallets' = success.wallets
       /\ naira_withdrawals' =
              [naira_withdrawals EXCEPT
                   ![i].status = IF success.value THEN "completed" ELSE "failed"]
       /\ WithdrawalRest

WithdrawalNext ==
    \/ \E user \in Users, k \in 1..(MaxCredit + 1) :
           OnCreateNairaWithdrawal(user, k * CreditSats)
    \/ \E i \in DOMAIN naira_withdrawals, outcome \in WithdrawalOutcomes :
           OnProcessNairaWithdrawal(i, outcome)

WithdrawalSpec == WithdrawalInit /\ [][WithdrawalNext]_vars

\* the row went from one status to another in this step
StatusMoved(i, from, to) ==
    /\ naira_withdrawals[i].status = from
    /\ naira_withdrawals'[i].status = to
\* the wallet of the row's user was debited by the row's amount in this step
DebitedFor(i) ==
    LET user == naira_withdrawals[i].user
    IN GetWallet(wallets', user).balance_btc
           = GetWallet(wallets, user).balance_btc - naira_withdrawals[i].amount_btc

MaxSessions == 3
MaxMessages == 6

ChatUsers == Users \cup {"+2348022222222"}
\* the messages get_chat_response is called with
SessionTexts == {"hello", "tell me a joke", "what is bitcoin?"}

ChatSession(user, is_active) == [user |-> user, is_active |-> is_active]
ChatMessage(session, message_type, content) ==
    [session |-> session, message_type |-> message_type, content |-> content]

\* _get_welcome_message, by its first line
GetWelcomeMessage == "Welcome to Bitzapp - Your Bitcoin Wallet in WhatsApp"

\* the places of the user's sessions with is_active = True
ActiveSessions(S, user) ==
    {i \in DOMAIN S : S[i].user = user /\ S[i].is_active}

\* ChatSession.objects.filter(user=user, is_active=True).update(is_active=False)
Deactivated(S, user) ==
    [i \in DOMAIN S |->
        IF S[i].user = user THEN [S[i] EXCEPT !.is_active = FALSE] ELSE S[i]]

\* start_chat_session without the update of the sessions already there
StartChatSession_NoDeactivation(S, M, user) ==
    [sessions |-> Append(S, ChatSession(user, TRUE)),
     messages |-> Append(M, ChatMessage(Len(S) + 1, "ai", GetWelcomeMessage)),
     session |-> Len(S) + 1]

\* start_chat_session: the rows it leaves and the session it returns
StartChatSession(S, M, user) ==
    [sessions |-> Append(Deactivated(S, user), ChatSession(user, TRUE)),
     messages |-> Append(M, ChatMessage(Len(S) + 1, "ai", GetWelcomeMessage)),
     session |-> Len(S) + 1]

\* _get_active_session: the first active session, or a new one
GetActiveSession(S, M, user) ==
    IF ActiveSessions(S, user) # {}
    THEN [sessions |-> S, messages |-> M,
          session |-> CHOOSE i \in ActiveSessions(S, user) :
                          \A j \in ActiveSessions(S, user) : i <= j]
    ELSE StartChatSession(S, M, user)

\* get_chat_response: the ChatMessage rows it leaves, given its reply
StoreExchange(got, m, response) ==
    Append(Append(got.messages, ChatMessage(got.session, "user", m)),
           ChatMessage(got.session, "ai", response))

SessionInit ==
    /\ ClassifierIdle /\ AppIdle /\ RaceIdle /\ WebhookIdle
    /\ naira_withdrawals = <<>>
    /\ chat_sessions = <<>>
    /\ chat_messages = <<>>

SessionRest ==
    UNCHANGED <<classifier_vars, wallets, naira_deposits, calls,
                handler_result, intent_data, race_vars, naira_withdrawals,
                webhook_vars>>

\* start_chat_session(user)
OnStartChatSession(user) ==
    LET started == StartChatSession(chat_sessions, chat_messages, user)
    IN /\ Len(chat_sessions) < MaxSessions
       /\ Len(chat_messages) < MaxMessages
       /\ chat_sessions' = started.sessions
       /\ chat_messages' = started.messages
       /\ inbound' = Unset
       /\ reply' = Unset
       /\ SessionRest

\* get_chat_response(user, m), the Bitnob API answering with outcome
OnGetChatResponse(user, m, outcome) ==
    LET got == GetActiveSession(chat_sessions, chat_messages, user)
        response == GetChatResponse(wallets, user, m, "", FALSE, Raises, outcome)
    IN /\ Len(got.sessions) <= MaxSessions
       /\ Len(got.messages) + 2 <= MaxMessages
       /\ chat_sessions' = got.sessions
       /\ chat_messages' = StoreExchange(got, m, response.ret)
       /\ inbound' = [user |-> user, text |-> m]
       /\ reply' = [text |-> response.ret]
       /\ SessionRest

SessionNext ==
    \/ \E user \in ChatUsers : OnStartChatSession(user)
    \/ \E user \in ChatUsers, m \in SessionTexts, outcome \in BitnobOutcomes :
           OnGetChatResponse(user, m, outcome)

SessionSpec == SessionInit /\ [][SessionNext]_vars

\* the last two ChatMessage rows are the call's message and its reply, in
\* session s
ExchangeStoredIn(s) ==
    LET n == Len(chat_messages)
    IN /\ n >= 2
       /\ chat_messages[n - 1] = ChatMessage(s, "user", inbound.text)
       /\ chat_messages[n] = ChatMessage(s, "ai", reply.text)

\* C28: after any run of get_chat_response and start_chat_session calls, made
\* one at a time, no user has more than one ChatSession with is_active = True,
\* and get_chat_response has stored the user's message and its reply in that
\* user's active session.
C28_OneActiveSession ==
    /\ \A user \in ChatUsers :
           Cardinality(ActiveSessions(chat_sessions, user)) <= 1
    /\ inbound # Unset =>
           \E s \in ActiveSessions(chat_sessions, inbound.user) :
               ExchangeStoredIn(s)

\* a user who started a session anew got a reply stored in the later session,
\* the other user's session still active
C28_Witness ==
    /\ inbound # Unset
    /\ \E s \in ActiveSessions(chat_sessions, inbound.user) :
           /\ ExchangeStoredIn(s)
           /\ \E i \in 1..(s - 1) : chat_sessions[i].user = inbound.user
    /\ \E user \in ChatUsers \ {inbound.user} :
           ActiveSessions(chat_sessions, user) # {}

(***************************************************************************)
(* payments/webhook.py: bitnob_webhook, one request at a time.  A body is  *)
(* written as its chunks, like the remote classifier's answers; a          *)
(* signature is written as what it was computed from.                      *)
(***************************************************************************)
\* the most events handed to _handle_event
MaxEvents == 2

LBracket == [k |-> "["]
RBracket == [k |-> "]"]

\* what settings.BITNOB_WEBHOOK_SECRET can be: the default, or a secret
WebhookSecrets == {"", "whsec"}

\* the raw bodies delivered
WebhookBodies ==
    {<<LBrace, Member("event", "checkout.completed"), RBrace>>,
     <<LBrace, Member("event", ""), Member("type", "lightning.invoice.paid"),
       RBrace>>,
     <<LBrace, RBrace>>,
     <<LBracket, RBracket>>,
     <<Prose>>,
     <<>>}

\* hmac.new(key, msg, sha256).hexdigest(), as a one-to-one function
HmacSha256(key, msg) == [kind |-> "hexdigest", key |-> key, msg |-> msg]
\* a request without the header reads as '', and a header can hold
\* characters outside ASCII
NoSignature == [kind |-> "", key |-> "", msg |-> <<>>]
NonAsciiSignature == [kind |-> "non-ascii", key |-> "", msg |-> <<>>]
\* the X-Bitnob-Signature headers delivered with raw_body
SignaturesFor(raw_body) ==
    {NoSignature, NonAsciiSignature}
        \cup {HmacSha256(key, raw_body) : key \in WebhookSecrets \cup {"guess"}}
        \cup {HmacSha256(key, <<LBrace, RBrace>>) : key \in WebhookSecrets}

WebhookRequests ==
    UNION {[method : {"POST", "GET"}, signature : SignaturesFor(raw_body),
            body : {raw_body}] : raw_body \in WebhookBodies}

\* _get_signature_secret
GetSignatureSecret == webhook_secret
\* _compute_signature
ComputeSignature(raw_body) == HmacSha256(GetSignatureSecret, raw_body)

\* a variant of _is_valid_signature that accepts every request
IsValidSignature_Always(request, raw_body) == TRUE

\* _is_valid_signature: hmac.compare_digest raises TypeError on a str that
\* is not ASCII, which reads as False
IsValidSignature(request, raw_body) ==
    LET provided == request.signature
        expected == ComputeSignature(raw_body)
    IN IF provided.kind = "non-ascii" THEN FALSE ELSE provided = expected

\* json.loads(raw_body.decode('utf-8')) succeeds
IsJson(raw_body) == IsJsonObject(raw_body) \/ raw_body = <<LBracket, RBracket>>

JsonResponse(status, error) == [status |-> status, error |-> error]

\* _handle_event(event, payload): it writes a log line and nothing else; the
\* events handed to it are kept in E
HandleEvent(E, event, payload) ==
    Append(E, [event |-> event, payload |-> payload])

\* the body of bitnob_webhook: the response and the events handed on.  A
\* body that is JSON but no object has no get(): the AttributeError leaves
\* the view, which Django answers with 500.  None of the bodies drawn has an
\* object under 'data', so payload is data.
BitnobWebhookView(request, E) ==
    LET raw_body == request.body
        data == JsonLoads(raw_body)
        event == IF Get(data, "event", "") # "" THEN data["event"]
                 ELSE Get(data, "type", "")
    IN IF ~IsValidSignature(request, raw_body)
       THEN [response |-> JsonResponse(400, "invalid signature"), events |-> E]
       ELSE IF ~IsJson(raw_body)
       THEN [response |-> JsonResponse(400, "invalid json"), events |-> E]
       ELSE IF ~IsJsonObject(raw_body)
       THEN [response |-> JsonResponse(500, "AttributeError"), events |-> E]
       ELSE [response |-> JsonResponse(200, ""),
             events |-> HandleEvent(E, event, data)]

\* @require_http_methods(["POST"]): another method is answered with 405 and
\* the view is not run
BitnobWebhook(request, E) ==
    IF request.method # "POST"
    THEN [response |-> JsonResponse(405, ""), events |-> E]
    ELSE BitnobWebhookView(request, E)

WebhookInit ==
    /\ ClassifierIdle /\ AppIdle /\ RaceIdle /\ SessionsIdle
    /\ naira_withdrawals = <<>>
    /\ webhook_secret \in WebhookSecrets
    /\ webhook_request = Unset
    /\ webhook_response = Unset
    /\ handled_events = <<>>

\* a request is delivered and answered
OnBitnobWebhook(request) ==
    LET done == BitnobWebhook(request, handled_events)
    IN /\ Len(done.events) <= MaxEvents
       /\ webhook_request' = request
       /\ webhook_response' = done.response
       /\ handled_events' = done.events
       /\ UNCHANGED <<classifier_vars, app_vars, race_vars, naira_withdrawals,
                      session_vars, webhook_secret>>

WebhookNext == \E request \in WebhookRequests : OnBitnobWebhook(request)

WebhookSpec == WebhookInit /\ [][WebhookNext]_vars

\* the header of the request is the HMAC-SHA256 of its raw body under the
\* configured secret
SignatureMatches(request) ==
    request.signature = HmacSha256(webhook_secret, request.body)
\* the request is one that must be turned away
Unacceptable(request) == ~SignatureMatches(request) \/ ~IsJson(request.body)
\* an event is handed to _handle_event in this step
EventHandled == handled_events' # handled_events

\* C30 as stated: an event is handed to _handle_event only after the
\* signature was found equal to the HMAC-SHA256 of the raw body and the body
\* parsed as JSON; a request with a missing or wrong signature, or with an
\* unparseable body, is answered with status 400 and no event is handled.
C30_Every400 ==
    [][/\ EventHandled => ~Unacceptable(webhook_request')
       /\ Unacceptable(webhook_request') =>
              webhook_response'.status = 400 /\ ~EventHandled]_vars

\* C30: an event is handed to _handle_event only after the signature was
\* found equal to the HMAC-SHA256 of the raw body and the body parsed as
\* JSON; a POST request with a missing or wrong signature, or with an
\* unparseable body, is answered with status 400, a request of another
\* method with status 405, and in both cases no event is handled.
C30_SignedJsonOnly ==
    [][/\ EventHandled => ~Unacceptable(webhook_request')
       /\ Unacceptable(webhook_request') /\ webhook_request'.method = "POST" =>
              webhook_response'.status = 400 /\ ~EventHandled
       /\ webhook_request'.method # "POST" =>
              webhook_response'.status = 405 /\ ~EventHandled]_vars

\* after an event was handled, a POST whose signature was made with another
\* key has been turned away with 400
C30_Witness ==
    /\ Len(handled_events) = 1
    /\ webhook_secret = "whsec"
    /\ webhook_request # Unset
    /\ webhook_request.method = "POST"
    /\ webhook_request.signature = HmacSha256("guess", webhook_request.body)
    /\ IsJsonObject(webhook_request.body)
    /\ webhook_response = JsonResponse(400, "invalid signature")

====
